---- MODULE Spec2Model ----
(***************************************************************************)
(* Mixed-generation NEAT engine of social_regulator_server:                *)
(* GenomeManager (genome store and lifecycle index sets),                  *)
(* MixedGenerationSpeciesSet, Speciation, MixedGenerationReproduction with *)
(* Elites / SpeciesMetrics / OffspringGenerator, Evaluation and the        *)
(* PopulationEvolver orchestrator driven by concurrent evaluation          *)
(* submissions.                                                            *)
(*                                                                         *)
(* Representation.  A genome is identified by its key; the model keeps,    *)
(* per alive key, the genome's fitness and an abstract genetic content     *)
(* `gene` from which the external genome distance is computed.  A member   *)
(* (gid, genome) and a genome object are both represented by the key.      *)
(* Python sets and random choices have no specified order: every order /   *)
(* choice is allowed.  Fitness values are integers and the offspring       *)
(* arithmetic is carried out on exact fractions.                           *)
(***************************************************************************)
EXTENDS Integers, Sequences, FiniteSets, TLC

VARIABLES
    gm,              \* manager.genomes : GenomeManager
    sp,              \* manager.species : MixedGenerationSpeciesSet
    generation,      \* manager.generation
    is_evolving,     \* PopulationEvolver.is_evolving
    stop,            \* PopulationEvolver.stop
    best_genome,     \* PopulationEvolver.best_genome (its fitness, NoFitness if None)
    threshold,       \* Evaluation.threshold, a fraction <<num, den>>
    config,          \* neat Config (fixed after construction)
    genome_indexer,  \* OffspringGenerator.genome_indexer: next key to hand out
    distance_cache,  \* Speciation.distance_cache : GenomeDistanceCache
    pc,              \* per worker thread: position in handle_receive_user_data
    local,           \* per worker thread: locals of the running handler
    hist             \* whether the population was created, what the last reproduce() did,
                     \* how many times handle_extinction ran

vars == <<gm, sp, generation, is_evolving, stop, best_genome, threshold, config,
          genome_indexer, distance_cache, pc, local, hist>>

----------------------------------------------------------------------------
(* Bounds of the model *)

NThreads == 2
MaxOffspring == 2
MaxFitness == 2
MaxGene == 2
MaxGeneration == 2
StoreMaxId == 2
StoreMaxSpecies == 2
MaxHits == 2

(* Values fixed by the program *)

NoFitness == -1
InitialSpeciesFitness == -1
PlaceholderId == 0

Threads == 1..NThreads
Fitnesses == 1..MaxFitness
Genes == 0..MaxGene

----------------------------------------------------------------------------
(* Generic helpers *)

Min(a, b) == IF a <= b THEN a ELSE b
Max(a, b) == IF a >= b THEN a ELSE b
Abs(a) == IF a >= 0 THEN a ELSE -a

Range(s) == {s[i] : i \in DOMAIN s}

\* dict[k] = v
Put(f, k, v) == [x \in (DOMAIN f) \cup {k} |-> IF x = k THEN v ELSE f[x]]
\* del dict[k]
Del(f, k) == [x \in (DOMAIN f) \ {k} |-> f[x]]

\* a list without the element x
Without(seq, x) ==
    LET Keep(e) == e # x IN SelectSeq(seq, Keep)

\* the place of x in a list that holds it once
IndexOf(seq, x) == CHOOSE i \in 1..Len(seq) : seq[i] = x

EmptyFn == [x \in {} |-> 0]

\* all orders in which a set can be iterated
RECURSIVE Orders(_)
Orders(S) == IF S = {} THEN {<<>>}
             ELSE UNION {{<<x>> \o o : o \in Orders(S \ {x})} : x \in S}

RECURSIVE SumOver(_, _)
SumOver(f, S) == IF S = {} THEN 0
                 ELSE LET x == CHOOSE y \in S : TRUE IN f[x] + SumOver(f, S \ {x})

MaxOf(S) == CHOOSE x \in S : \A y \in S : y <= x
MinOf(S) == CHOOSE x \in S : \A y \in S : x <= y

\* Python round() of the fraction n/d (d > 0): round half to even
RoundHalfEven(n, d) ==
    LET q == n \div d
        r == n % d
    IN  IF 2 * r < d THEN q
        ELSE IF 2 * r > d THEN q + 1
        ELSE IF q % 2 = 0 THEN q ELSE q + 1

\* math.ceil of the fraction n/d (d > 0)
Ceil(n, d) == IF n % d = 0 THEN n \div d ELSE (n \div d) + 1

----------------------------------------------------------------------------
(* GenomeManager: operations as functions on the manager's fields *)

\* genome_species_map is a dict: species_map_order is the order of its keys, a
\* new key going last and a key assigned again keeping its place
GenomeManagerInit ==
    [genomes |-> EmptyFn,
     free_genomes |-> {},
     evaluated_genomes |-> {},
     elite_genomes |-> {},
     representative_genomes |-> EmptyFn,
     unspeciated_genomes |-> {},
     genome_species_map |-> EmptyFn,
     species_map_order |-> <<>>,
     alive_genomes_count |-> 0]

\* GenomeManager.reset
reset(g) ==
    GenomeManagerInit

\* add_genome leaving the counter as it is
add_genome_uncounted(g, genome_id, genome) ==
    [g EXCEPT !.genomes = Put(@, genome_id, genome),
              !.unspeciated_genomes = @ \cup {genome_id},
              !.free_genomes = @ \cup {genome_id}]

\* GenomeManager.add_genome
add_genome(g, genome_id, genome) ==
    [g EXCEPT !.genomes = Put(@, genome_id, genome),
              !.unspeciated_genomes = @ \cup {genome_id},
              !.free_genomes = @ \cup {genome_id},
              !.alive_genomes_count = @ + 1]

remove_genome(g, genome_id) ==
    IF genome_id \in DOMAIN g.genomes
    THEN [g EXCEPT
            !.genomes = Del(@, genome_id),
            !.evaluated_genomes = @ \ {genome_id},
            !.elite_genomes = @ \ {genome_id},
            !.unspeciated_genomes = @ \ {genome_id},
            !.free_genomes = @ \ {genome_id},
            !.representative_genomes =
                IF /\ genome_id \in DOMAIN g.genome_species_map
                   /\ g.genome_species_map[genome_id] \in DOMAIN @
                   /\ @[g.genome_species_map[genome_id]] = genome_id
                THEN Del(@, g.genome_species_map[genome_id])
                ELSE @,
            !.genome_species_map = Del(@, genome_id),
            !.species_map_order = Without(@, genome_id),
            !.alive_genomes_count = @ - 1]
    ELSE g

get_genomes_in_species(g, species_id) ==
    {gid \in DOMAIN g.genome_species_map : g.genome_species_map[gid] = species_id}

RECURSIVE remove_all(_, _)
remove_all(g, ids) ==
    IF ids = {} THEN g
    ELSE LET gid == CHOOSE x \in ids : TRUE
         IN  remove_all(remove_genome(g, gid), ids \ {gid})

\* remove_genomes_in_species leaving the members where they are
remove_genomes_in_species_skipped(g, species_id) ==
    g

remove_genomes_in_species(g, species_id) ==
    remove_all(g, get_genomes_in_species(g, species_id))

clear_evaluated(g) == [g EXCEPT !.evaluated_genomes = {}]

clear_elites(g) == [g EXCEPT !.elite_genomes = {}]

set_unavailable(g, genome_id) == [g EXCEPT !.free_genomes = @ \ {genome_id}]

set_evaluated(g, genome_id) == [g EXCEPT !.evaluated_genomes = @ \cup {genome_id}]

\* get_random_available_genome returning a genome that stays available
get_random_available_genome_unmarked(g) ==
    IF g.free_genomes = {}
    THEN {[g |-> g, genome_id |-> 0, result |-> "RuntimeError"]}
    ELSE {[g |-> g, genome_id |-> genome_id, result |-> "genome"] :
             genome_id \in g.free_genomes}

\* PopulationManager.get_random_available_genome: RuntimeError when nothing
\* is available, else a random available genome, marked unavailable
get_random_available_genome(g) ==
    IF g.free_genomes = {}
    THEN {[g |-> g, genome_id |-> 0, result |-> "RuntimeError"]}
    ELSE {[g |-> set_unavailable(g, genome_id), genome_id |-> genome_id,
           result |-> "genome"] : genome_id \in g.free_genomes}

set_elite(g, genome_id) ==
    [g EXCEPT !.elite_genomes = @ \cup {genome_id},
              !.free_genomes = @ \cup {genome_id}]

set_representative(g, species_id, genome_id) ==
    [g EXCEPT !.representative_genomes = Put(@, species_id, genome_id)]

assign_genome_to_species(g, genome_id, species_id) ==
    [g EXCEPT !.genome_species_map = Put(@, genome_id, species_id),
              !.species_map_order =
                  IF genome_id \in DOMAIN g.genome_species_map THEN @
                  ELSE Append(@, genome_id),
              !.unspeciated_genomes = @ \ {genome_id}]

get_evaluated_genomes_in_species(g, species_id) ==
    get_genomes_in_species(g, species_id) \cap g.evaluated_genomes

\* the dying genomes without the elites taken out
dying_with_elites(g, species_id) ==
    get_evaluated_genomes_in_species(g, species_id)

get_dying_genomes_for_species(g, species_id) ==
    get_evaluated_genomes_in_species(g, species_id) \ g.elite_genomes

get_fitness(g, genome_id) == g.genomes[genome_id].fitness

\* sorted(..., key=get_fitness, reverse=True) of the members in gids: fitness
\* descending, and the sort being stable, equal fitnesses in the order of the
\* keys of genome_species_map
RECURSIVE sorted_by_fitness(_, _)
sorted_by_fitness(g, gids) ==
    IF gids = {} THEN <<>>
    ELSE LET best == {y \in gids : \A z \in gids : get_fitness(g, y) >= get_fitness(g, z)}
             x == CHOOSE y \in best :
                      \A z \in best : IndexOf(g.species_map_order, y)
                                          <= IndexOf(g.species_map_order, z)
         IN  <<x>> \o sorted_by_fitness(g, gids \ {x})

get_genomes_sorted_by_fitness(g, species_id) ==
    {sorted_by_fitness(g, get_evaluated_genomes_in_species(g, species_id))}

----------------------------------------------------------------------------
(* MixedGenerationSpeciesSet *)

SpeciesSetInit ==
    [generation |-> 0,
     species |-> {},
     active |-> {},
     current_fitnesses |-> EmptyFn,
     best_fitnesses |-> EmptyFn,
     last_improved |-> EmptyFn,
     population_deficits |-> EmptyFn,
     expected_offspring |-> EmptyFn]

set_generation(s, g) == [s EXCEPT !.generation = g]

new_species_id(s) == (IF s.species = {} THEN 0 ELSE MaxOf(s.species)) + 1

add_species(s, species_id) ==
    [s EXCEPT !.species = @ \cup {species_id},
              !.active = @ \cup {species_id},
              !.current_fitnesses = Put(@, species_id, InitialSpeciesFitness),
              !.best_fitnesses = Put(@, species_id, InitialSpeciesFitness),
              !.last_improved = Put(@, species_id, s.generation)]

create_new_species(s) == add_species(s, new_species_id(s))

remove_species(s, species_id) ==
    IF species_id \in s.species
    THEN [s EXCEPT !.species = @ \ {species_id},
                   !.active = @ \ {species_id},
                   !.current_fitnesses = Del(@, species_id),
                   !.best_fitnesses = Del(@, species_id),
                   !.last_improved = Del(@, species_id)]
    ELSE s

update_species_fitness(s, species_id, fitness) ==
    IF species_id \in s.species
    THEN [s EXCEPT !.current_fitnesses = Put(@, species_id, fitness),
                   !.best_fitnesses =
                       IF fitness > @[species_id] THEN Put(@, species_id, fitness) ELSE @,
                   !.last_improved =
                       IF fitness > s.best_fitnesses[species_id]
                       THEN Put(@, species_id, s.generation) ELSE @]
    ELSE s

set_population_deficit(s, species_id, deficit) ==
    [s EXCEPT !.population_deficits = Put(@, species_id, deficit)]

set_expected_offspring(s, species_id, expected) ==
    [s EXCEPT !.expected_offspring = Put(@, species_id, expected)]

is_stagnant(s, species_id, limit) == s.generation - s.last_improved[species_id] > limit

get_active_species(s) == s.active

mark_stagnant(s, species_id) == [s EXCEPT !.active = @ \ {species_id}]

\* reset(): only the species dict is cleared, the other per-species records stay
species_reset(s) ==
    create_new_species(set_generation([s EXCEPT !.species = {}], 0))

\* to_remove holds species objects, remove_species looks them up as keys:
\* no key of the species dict equals a species object
remove_stagnant_species(s) == s

----------------------------------------------------------------------------
(* Speciation *)

NoGenome == 0

\* genome0.distance(genome1, config) of the external genome abstraction
Position(gene) == (gene * (gene + 1)) \div 2
distance(g, a, b) == Abs(Position(g.genomes[a].gene) - Position(g.genomes[b].gene))

\* GenomeDistanceCache.__init__.  The stages of the cycle read distance()
\* directly: a key is handed out once and a stored genome never changes, so
\* the cache returns for a pair what distance() gives for it.
GenomeDistanceCacheInit == [distances |-> EmptyFn, hits |-> 0, misses |-> 0]

\* GenomeDistanceCache.__call__ keeping the distance under (g0, g1) only
distance_cache_call_one_way(cache, g, genome0, genome1) ==
    IF <<genome0, genome1>> \in DOMAIN cache.distances
    THEN [cache |-> [cache EXCEPT !.hits = @ + 1],
          d |-> cache.distances[<<genome0, genome1>>]]
    ELSE LET d == distance(g, genome0, genome1)
         IN  [cache |-> [cache EXCEPT !.distances = Put(@, <<genome0, genome1>>, d),
                                      !.misses = @ + 1],
              d |-> d]

\* GenomeDistanceCache.__call__(genome0, genome1): the cache after the call
\* and the distance returned
distance_cache_call(cache, g, genome0, genome1) ==
    IF <<genome0, genome1>> \in DOMAIN cache.distances
    THEN [cache |-> [cache EXCEPT !.hits = @ + 1],
          d |-> cache.distances[<<genome0, genome1>>]]
    ELSE LET d == distance(g, genome0, genome1)
         IN  [cache |-> [cache EXCEPT !.distances = Put(Put(@, <<genome0, genome1>>, d),
                                                         <<genome1, genome0>>, d),
                                      !.misses = @ + 1],
              d |-> d]

get_representative(g, species_id) ==
    IF /\ species_id \in DOMAIN g.representative_genomes
       /\ g.representative_genomes[species_id] \in DOMAIN g.genomes
    THEN g.representative_genomes[species_id]
    ELSE NoGenome

\* min(candidates, key=distance): a candidate at minimum distance
find_closest_element(g, target, candidates) ==
    {c \in candidates : \A o \in candidates : distance(g, target, c) <= distance(g, target, o)}

\* extract_new_representative taking any unspeciated genome
extract_new_representative_any(g, rep) ==
    g.unspeciated_genomes

\* the genomes extract_new_representative can return ({} when it returns None)
extract_new_representative(g, rep) ==
    IF g.unspeciated_genomes = {} THEN {}
    ELSE IF rep = NoGenome THEN g.unspeciated_genomes
    ELSE find_closest_element(g, rep, g.unspeciated_genomes)

\* the loop of set_new_representatives over the species still to visit, in
\* the order of the species dict (ascending id); the set of possible results
RECURSIVE set_new_representatives_from(_, _)
set_new_representatives_from(g, todo) ==
    IF todo = {} THEN {g}
    ELSE LET species_id == MinOf(todo)
             new_reps == extract_new_representative(g, get_representative(g, species_id))
         IN  IF new_reps = {}
             THEN set_new_representatives_from(g, todo \ {species_id})
             ELSE UNION {set_new_representatives_from(
                             set_representative(
                                 assign_genome_to_species(g, new_rep, species_id),
                                 species_id, new_rep),
                             todo \ {species_id}) : new_rep \in new_reps}

set_new_representatives(g, s) == set_new_representatives_from(g, s.species)

\* how_compatible: 0.0 when the distance exceeds the threshold, else the distance;
\* the caller keeps the species whose value is truthy
how_compatible(g, c, rep, genome) ==
    IF c.compatibility_threshold - distance(g, rep, genome) < 0
    THEN 0
    ELSE distance(g, rep, genome)

get_compatible_genomes(g, s, c, genome) ==
    {species_id \in s.species :
        how_compatible(g, c, get_representative(g, species_id), genome) # 0}

\* min(compatibilities, key=lambda x: x[0]): the first minimum in species order
best_species(g, s, c, genome) ==
    LET comp == get_compatible_genomes(g, s, c, genome)
        closest == {sid \in comp : \A o \in comp :
                       distance(g, get_representative(g, sid), genome)
                           <= distance(g, get_representative(g, o), genome)}
    IN  MinOf(closest)

\* one iteration of the loop of partition_population, for the genome `genome`
\* the loop body without the branch that founds a new species
partition_genome_compatible_only(st, c, genome) ==
    IF get_compatible_genomes(st.g, st.s, c, genome) # {}
    THEN [st EXCEPT !.g = assign_genome_to_species(@, genome,
                                                   best_species(st.g, st.s, c, genome))]
    ELSE st

partition_genome(st, c, genome) ==
    IF get_compatible_genomes(st.g, st.s, c, genome) # {}
    THEN [st EXCEPT !.g = assign_genome_to_species(@, genome,
                                                   best_species(st.g, st.s, c, genome))]
    ELSE [st EXCEPT !.g = set_representative(
                              assign_genome_to_species(@, genome, new_species_id(st.s)),
                              new_species_id(st.s), genome),
                    !.s = create_new_species(@)]

\* the genomes the iteration over the set `todo` may give next: any of them, or
\* the smallest id where the set holds small ids added in ascending order
next_unspeciated(c, todo) ==
    IF c.set_iteration = "ascending" THEN {MinOf(todo)} ELSE todo

\* the loop of partition_population over the list get_unspeciated_genomes()
\* returned: each st carries in `todo` the genomes of that list not visited yet
RECURSIVE partition_from(_, _)
partition_from(sts, c) ==
    IF \A st \in sts : st.todo = {}
    THEN {[g |-> st.g, s |-> st.s, ok |-> TRUE] : st \in sts}
    ELSE partition_from(
             UNION {{[partition_genome(st, c, genome) EXCEPT !.todo = @ \ {genome}] :
                        genome \in next_unspeciated(c, st.todo)} : st \in sts},
             c)

\* ok = FALSE when get_compatible_genomes raises: a species without
\* representative makes distance_cache(None, genome) fail on the first genome
partition_population(g, s, c) ==
    IF g.unspeciated_genomes # {}
       /\ \E species_id \in s.species : get_representative(g, species_id) = NoGenome
    THEN {[g |-> g, s |-> s, ok |-> FALSE]}
    ELSE partition_from({[g |-> g, s |-> s, todo |-> g.unspeciated_genomes]}, c)

\* the possible results of Speciation.speciate()
speciate(g, s, c) ==
    UNION {partition_population(g2, s, c) : g2 \in set_new_representatives(g, s)}

----------------------------------------------------------------------------
(* SpeciesMetrics: the offspring arithmetic, on fractions <<num, den>>, den > 0 *)

RECURSIVE ProdOver(_, _)
ProdOver(f, S) == IF S = {} THEN 1
                  ELSE LET x == CHOOSE y \in S : TRUE IN f[x] * ProdOver(f, S \ {x})

Fitness(g) == [gid \in DOMAIN g.genomes |-> g.genomes[gid].fitness]

\* get_adjusted_mean_fitness(all_fitnesses, species_fitnesses) for the evaluated
\* genomes `all` and the evaluated members `members` of one species
get_adjusted_mean_fitness(g, all, members) ==
    IF all = {} \/ members = {} THEN <<0, 1>>
    ELSE LET min_fitness == MinOf({get_fitness(g, x) : x \in all})
             max_fitness == MaxOf({get_fitness(g, x) : x \in all})
             fitness_range == IF max_fitness # min_fitness
                              THEN Max(1, max_fitness - min_fitness) ELSE 1
         IN  <<SumOver(Fitness(g), members) - min_fitness * Cardinality(members),
               Cardinality(members) * fitness_range>>

get_reproduction_cutoff(survival_threshold, evaluated, min_species_size) ==
    Max(Ceil(survival_threshold[1] * evaluated, survival_threshold[2]), min_species_size)

\* compute_offspring_count(deficit, norm, min_size) with norm = aging / total_deficit
compute_offspring_count(deficit, aging, total_deficit, min_size) ==
    Max(min_size, RoundHalfEven(deficit * aging, total_deficit))

compute_species_deficit(expected_species_size, evaluated) ==
    LET diff_num == expected_species_size[1] - evaluated * expected_species_size[2]
        rounded_diff == RoundHalfEven(diff_num, 2 * expected_species_size[2])
    IN  IF Abs(rounded_diff) > 0 THEN evaluated + rounded_diff
        ELSE IF diff_num > 0 THEN evaluated + 1
        ELSE IF diff_num < 0 THEN evaluated - 1
        ELSE evaluated

\* compute_expected_size(total, species_adjusted_fitness, evaluated, min_size) where
\* the species' share species_adjusted_fitness / total is the fraction `share`
\* and total_positive tells whether total_adjusted_fitness > 0
compute_expected_size(total_positive, share, evaluated, min_species_size) ==
    IF total_positive
    THEN IF share[1] * evaluated >= min_species_size * share[2]
         THEN <<share[1] * evaluated, share[2]>>
         ELSE <<min_species_size, 1>>
    ELSE <<min_species_size, 1>>

----------------------------------------------------------------------------
(* Elites *)

\* Elites.set_elitism_stats: elitism_count
set_elitism_stats(offspring_count, elitism) == Max(offspring_count, elitism)

\* Elites.preserve: the first elitism_count of the sorted parents
\* the slice taken from the wrong end of the sorted parents
preserve_last(sorted_parents, offspring_count, elitism) ==
    {sorted_parents[Len(sorted_parents) + 1 - i] :
        i \in 1..Min(Len(sorted_parents), set_elitism_stats(offspring_count, elitism))}

preserve(sorted_parents, offspring_count, elitism) ==
    {sorted_parents[i] :
        i \in 1..Min(Len(sorted_parents), set_elitism_stats(offspring_count, elitism))}

----------------------------------------------------------------------------
(* MixedGenerationReproduction *)

get_minimum_species_size(c) == Max(c.min_species_size, c.elitism)

\* the evaluated ids that are no longer stored make get_evaluated_genomes raise
EvaluatedStored(g) == g.evaluated_genomes \subseteq DOMAIN g.genomes

AdjustedFitness(g, s) ==
    [sid \in s.active |->
        get_adjusted_mean_fitness(g, g.evaluated_genomes,
                                  get_evaluated_genomes_in_species(g, sid))]

\* species.adjusted_fitness / get_adjusted_genome_fitness(), the latter being the
\* mean over the active species: af_i / mean(af) = af_i * m / sum(af)
AdjustedShare(g, s, sid) ==
    LET af == AdjustedFitness(g, s)
        den == [x \in s.active |-> af[x][2]]
        Q == ProdOver(den, s.active)
        scaled == [x \in s.active |-> af[x][1] * (Q \div af[x][2])]
    IN  <<scaled[sid] * Cardinality(s.active), SumOver(scaled, s.active)>>

\* total_adjusted_fitness > 0
TotalAdjustedPositive(g, s) ==
    LET af == AdjustedFitness(g, s)
        den == [x \in s.active |-> af[x][2]]
        Q == ProdOver(den, s.active)
    IN  SumOver([x \in s.active |-> af[x][1] * (Q \div af[x][2])], s.active) > 0

SpeciesDeficit(g, s, c, sid) ==
    compute_species_deficit(
        compute_expected_size(TotalAdjustedPositive(g, s), AdjustedShare(g, s, sid),
                              Cardinality(g.evaluated_genomes),
                              get_minimum_species_size(c)),
        Cardinality(g.evaluated_genomes))

\* compute_offspring_counts: ok = FALSE when it raises (an evaluated id that is
\* not stored, an active id without species object, or aging / total_deficit
\* with total_deficit = 0)
compute_offspring_counts(g, s, c) ==
    LET aging == Cardinality(g.evaluated_genomes)
        deficit == [sid \in s.active |-> SpeciesDeficit(g, s, c, sid)]
        total_deficit == SumOver(deficit, s.active)
        with_deficits == [s EXCEPT !.population_deficits =
                             [x \in (DOMAIN @) \cup s.active |->
                                 IF x \in s.active THEN deficit[x] ELSE @[x]]]
    IN  IF ~EvaluatedStored(g) \/ ~(s.active \subseteq s.species)
        THEN [s |-> s, ok |-> FALSE,
              err |-> IF ~EvaluatedStored(g) THEN "KeyError" ELSE "AttributeError"]
        ELSE IF total_deficit = 0
        THEN [s |-> with_deficits, ok |-> FALSE, err |-> "ZeroDivisionError"]
        ELSE [s |-> [with_deficits EXCEPT !.expected_offspring =
                        [x \in (DOMAIN @) \cup s.active |->
                            IF x \in s.active
                            THEN compute_offspring_count(deficit[x], aging, total_deficit,
                                                         get_minimum_species_size(c))
                            ELSE @[x]]],
              ok |-> TRUE, err |-> "none"]

RECURSIVE set_elite_all(_, _)
set_elite_all(g, ids) ==
    IF ids = {} THEN g
    ELSE LET gid == CHOOSE x \in ids : TRUE
         IN  set_elite_all(set_elite(g, gid), ids \ {gid})

\* set_elites(species_id) for one order of the sorted parents
set_elites(g, s, c, species_id, sorted_parents) ==
    set_elite_all(g, preserve(sorted_parents, s.expected_offspring[species_id], c.elitism))

\* create_offspring going on with any number of parents
create_offspring_never_raises(parent_pool_size, parent_cutoff) ==
    FALSE

\* OffspringGenerator.create_offspring raises with fewer than two parents in the
\* pool, and random.sample raises with fewer than two parents below the cutoff
create_offspring_raises(parent_pool_size, parent_cutoff) ==
    parent_pool_size < 2 \/ Min(parent_pool_size, parent_cutoff) < 2

RECURSIVE add_genomes(_, _, _)
add_genomes(g, ids, genes) ==
    IF ids = {} THEN g
    ELSE LET gid == MinOf(ids)
         IN  add_genomes(add_genome(g, gid, [fitness |-> NoFitness, gene |-> genes[gid]]),
                         ids \ {gid}, genes)

\* process_dying_parents removing the elites with the dying parents
process_dying_parents_with_elites(g, species_id) ==
    remove_all(g, get_evaluated_genomes_in_species(g, species_id))

\* Reproduction.process_dying_parents
process_dying_parents(g, species_id) ==
    remove_all(g, get_dying_genomes_for_species(g, species_id))

\* one iteration of the loop of reproduce(): set_elites, create_offspring_for_species,
\* process_dying_parents for one species.  st carries the store, the genome
\* indexer and what the loop did so far: the species it went through, the
\* genomes it marked elite, the genomes it removed, the children per species.
ReproduceSpecies(st, s, c, species_id) ==
    UNION {
        LET new_elites == preserve(sorted_parents, s.expected_offspring[species_id], c.elitism)
            g1 == set_elites(st.g, s, c, species_id, sorted_parents)
            dying == get_dying_genomes_for_species(g1, species_id)
            dying_count == Cardinality(dying)
            cutoff == get_reproduction_cutoff(c.survival_threshold, Len(sorted_parents),
                                              c.min_species_size)
            children == st.indexer .. (st.indexer + dying_count - 1)
        IN  IF dying_count > 0 /\ create_offspring_raises(Len(sorted_parents), cutoff)
            THEN {[st EXCEPT !.g = g1, !.ok = FALSE, !.err = "ValueError",
                             !.marked = @ \cup new_elites]}
            ELSE {[g |-> process_dying_parents(add_genomes(g1, children, genes), species_id),
                   indexer |-> st.indexer + dying_count,
                   ok |-> TRUE,
                   err |-> "none",
                   processed |-> st.processed \cup {species_id},
                   marked |-> st.marked \cup new_elites,
                   removed |-> st.removed \cup dying,
                   spawn |-> Put(st.spawn, species_id, dying_count)] :
                     genes \in [children -> c.genes]}
        : sorted_parents \in get_genomes_sorted_by_fitness(st.g, species_id)}

RECURSIVE ReproduceFrom(_, _, _, _, _)
ReproduceFrom(st, s, c, order, i) ==
    IF ~st.ok \/ i > Len(order) THEN {st}
    ELSE UNION {ReproduceFrom(st2, s, c, order, i + 1) :
                    st2 \in ReproduceSpecies(st, s, c, order[i])}

ReproduceStart(g, indexer) ==
    [g |-> g, indexer |-> indexer, ok |-> TRUE, err |-> "none", processed |-> {},
     marked |-> {},
     removed |-> {}, spawn |-> EmptyFn]

\* the possible results of reproduce(): the species set with the offspring
\* counts, and the outcome of the loop over the active species (a Python set:
\* any iteration order)
reproduce(g, s, c, indexer) ==
    LET counts == compute_offspring_counts(g, s, c)
    IN  IF s.active = {} \/ ~counts.ok
        THEN {[s |-> counts.s,
               st |-> [ReproduceStart(g, indexer) EXCEPT
                          !.ok = FALSE,
                          !.err = IF s.active = {} THEN "ValueError" ELSE counts.err]]}
        ELSE {[s |-> counts.s, st |-> st] :
                 st \in UNION {ReproduceFrom(ReproduceStart(g, indexer), counts.s, c, order, 1) :
                                  order \in Orders(s.active)}}

----------------------------------------------------------------------------
(* Evaluation *)

\* the comparison without the case of equality
threshold_exceeded(g, th) ==
    Cardinality(g.evaluated_genomes) * th[2] > th[1] * g.alive_genomes_count

\* get_evaluated_genomes() raises KeyError on an evaluated id that is not stored
threshold_reached(g, th) ==
    Cardinality(g.evaluated_genomes) * th[2] >= th[1] * g.alive_genomes_count

\* the fitness of the best evaluated genome
get_best(g) == MaxOf({get_fitness(g, gid) : gid \in g.evaluated_genomes})

\* fitness_function(genome) writes genome.fitness on the object the handler
\* holds, stored or not; set_evaluated records the key
evaluate(g, genome_id, fitness) ==
    set_evaluated(
        IF genome_id \in DOMAIN g.genomes
        THEN [g EXCEPT !.genomes[genome_id].fitness = fitness]
        ELSE g,
        genome_id)

----------------------------------------------------------------------------
(* Stagnation and PopulationManager *)

NoSpeciesFitness == InitialSpeciesFitness - 1

\* species fitness: the best fitness of its evaluated members
species_fitness(g, species_id) ==
    IF get_evaluated_genomes_in_species(g, species_id) \cap DOMAIN g.genomes = {}
    THEN NoSpeciesFitness
    ELSE MaxOf({get_fitness(g, gid) :
                  gid \in get_evaluated_genomes_in_species(g, species_id) \cap DOMAIN g.genomes})

RECURSIVE update_fitnesses(_, _, _)
update_fitnesses(g, s, todo) ==
    IF todo = {} THEN s
    ELSE LET species_id == MinOf(todo)
         IN  update_fitnesses(
                 g, update_species_fitness(s, species_id, species_fitness(g, species_id)),
                 todo \ {species_id})

\* -sys.float_info.max: below every fitness a species can have
NegativeFloatMax == NoSpeciesFitness - 1

\* calculate_prev_fitness: max(species.fitness_history), or -float max
calculate_prev_fitness(fitness_history) ==
    IF fitness_history # <<>>
    THEN MaxOf({fitness_history[i] : i \in DOMAIN fitness_history})
    ELSE NegativeFloatMax

\* MixedGenerationSpecies.get_fitnesses(genome_ids_to_consider): the fitnesses
\* of the members whose id is in the list, as a function of the member id
get_fitnesses(members, genome_ids_to_consider) ==
    [genome_id \in (DOMAIN members) \cap genome_ids_to_consider |-> members[genome_id]]

\* species fitnesses are kept in units of 1 / FitnessScale, which makes the
\* mean of up to StoreMaxId integers an integer
FitnessScale == ProdOver([i \in 1..StoreMaxId |-> i], 1..StoreMaxId)

StatFunctions == {"mean", "max", "min"}

\* neat.math_util.stat_functions[name](values): mean is sum / len and divides
\* by zero on an empty list, max and min raise ValueError on it
stat_functions(name, values) ==
    IF DOMAIN values = {}
    THEN [err |-> IF name = "mean" THEN "ZeroDivisionError" ELSE "ValueError",
          value |-> NegativeFloatMax]
    ELSE [err |-> "none",
          value |-> CASE name = "mean" ->
                           (SumOver(values, DOMAIN values) * FitnessScale)
                              \div Cardinality(DOMAIN values)
                      [] name = "max" ->
                           MaxOf({values[x] : x \in DOMAIN values}) * FitnessScale
                      [] name = "min" ->
                           MinOf({values[x] : x \in DOMAIN values}) * FitnessScale]

\* the update comparing with the fitness recorded last
update_fitness_history_last_only(species, fitness, g) ==
    [fitness |-> fitness,
     fitness_history |-> Append(species.fitness_history, fitness),
     last_improved |->
         IF fitness > (IF species.fitness_history # <<>>
                       THEN species.fitness_history[Len(species.fitness_history)]
                       ELSE NegativeFloatMax)
         THEN g ELSE species.last_improved]

\* one iteration of the loop of _update_fitness_history_for_species on the
\* species object, species_fitness_func having given `fitness`
update_fitness_history(species, fitness, g) ==
    [fitness |-> fitness,
     fitness_history |-> Append(species.fitness_history, fitness),
     last_improved |->
         IF fitness > calculate_prev_fitness(species.fitness_history)
         THEN g ELSE species.last_improved]

\* MixedGenerationStagnation.sort_by_fitness: the species ids by fitness,
\* descending; the sort is stable, equal fitnesses stay in the order of the
\* species dict (ascending id)
RECURSIVE sort_by_fitness(_, _)
sort_by_fitness(s, ids) ==
    IF ids = {} THEN <<>>
    ELSE LET x == CHOOSE y \in ids : \A z \in ids :
                      \/ s.current_fitnesses[y] > s.current_fitnesses[z]
                      \/ (s.current_fitnesses[y] = s.current_fitnesses[z] /\ y <= z)
         IN  <<x>> \o sort_by_fitness(s, ids \ {x})

\* _is_species_stagnant(species, generation, index, num_non_stagnant)
is_species_stagnant(s, c, species_id, index, num_non_stagnant) ==
    /\ ~(s.generation - s.last_improved[species_id] <= c.max_stagnation)
    /\ ~(num_non_stagnant - index < c.species_elitism)

\* the loop of _identify_stagnant_species from position `index` (0-based) of
\* sorted_data on: the ids whose entry in the result is True
RECURSIVE identify_stagnant_species(_, _, _, _, _)
identify_stagnant_species(s, c, sorted_data, index, num_non_stagnant) ==
    IF index >= Len(sorted_data) THEN {}
    ELSE IF is_species_stagnant(s, c, sorted_data[index + 1], index, num_non_stagnant)
    THEN {sorted_data[index + 1]}
             \cup identify_stagnant_species(s, c, sorted_data, index + 1,
                                            num_non_stagnant - 1)
    ELSE identify_stagnant_species(s, c, sorted_data, index + 1, num_non_stagnant)

\* the species the stagnation update reports stagnant among `ids`
stagnant_species(s, c, ids) ==
    identify_stagnant_species(s, c, sort_by_fitness(s, ids), 0, Cardinality(ids))

RECURSIVE retire_species(_, _, _)
retire_species(g, s, todo) ==
    IF todo = {} THEN [g |-> g, s |-> s]
    ELSE LET species_id == MinOf(todo)
         IN  retire_species(remove_genomes_in_species(g, species_id),
                            mark_stagnant(s, species_id), todo \ {species_id})

update_active_species(g, s, c) ==
    LET s1 == update_fitnesses(g, s, s.active \cap s.species)
    IN  retire_species(g, s1, stagnant_species(s1, c, s1.active \cap s.species))

\* create_new_population: manager.reset(), create_new_genomes(pop_size), speciate()
create_new_population(g, s, c, indexer, genes) ==
    speciate(add_genomes(reset(g), indexer .. (indexer + c.pop_size - 1), genes),
             species_reset(s), c)

----------------------------------------------------------------------------
(* Configurations and initial values *)

NewGenome(gene) == [fitness |-> NoFitness, gene |-> gene]

DefaultConfig ==
    [pop_size |-> 3,
     elitism |-> 1,
     min_species_size |-> 2,
     survival_threshold |-> <<1, 5>>,
     compatibility_threshold |-> 1,
     max_stagnation |-> 0,
     species_elitism |-> 0,
     fitness_threshold |-> MaxFitness + 1,
     no_fitness_termination |-> FALSE,
     reset_on_extinction |-> FALSE,
     genes |-> Genes,
     set_iteration |-> "any",
     entry |-> "evolver"]

\* small species may lose members: min_species_size 1, every parent may breed
SmallSpeciesConfig ==
    [DefaultConfig EXCEPT !.min_species_size = 1, !.survival_threshold = <<1, 1>>]

ExperimentConfig == [SmallSpeciesConfig EXCEPT !.entry = "experiment"]

\* genomes whose contents are equal or one apart
NarrowConfig == [SmallSpeciesConfig EXCEPT !.genes = 0..1]

\* a reproduction cutoff of one parent: ceil(survival_threshold * n) = 1 and
\* min_species_size = 1
SingleParentConfig == [SmallSpeciesConfig EXCEPT !.survival_threshold = <<1, 5>>]

\* no minimum species size and no elite
NoMinimumConfig == [SmallSpeciesConfig EXCEPT !.min_species_size = 0, !.elitism = 0]

\* a population of two
PairConfig == [SmallSpeciesConfig EXCEPT !.pop_size = 2]

\* a population of two that is created again when every species is gone
ResetConfig == [PairConfig EXCEPT !.reset_on_extinction = TRUE]

\* the fitness goal is a fitness the fitness function can give
GoalConfig == [SmallSpeciesConfig EXCEPT !.fitness_threshold = MaxFitness]

\* ten mutually compatible genomes (genes 1..10, any two within the threshold),
\* their ids iterated in ascending order
ScenarioConfig ==
    [DefaultConfig EXCEPT !.pop_size = 10, !.compatibility_threshold = 100,
                          !.fitness_threshold = 11, !.genes = 1..10,
                          !.set_iteration = "ascending"]

NoReproduce ==
    [species |-> {}, marked |-> {}, removed |-> {}, spawn |-> EmptyFn, quota |-> EmptyFn]

HistInit == [started |-> FALSE, last |-> NoReproduce, extinctions |-> 0]

IdleLocal == [genome_id |-> PlaceholderId]

----------------------------------------------------------------------------
(* SpecStore: the GenomeManager and MixedGenerationSpeciesSet driven through *)
(* their public methods, in any order, with arguments their callers pass    *)
(* (keys of stored genomes, ids of existing species).                       *)

StoreInit ==
    /\ gm = GenomeManagerInit
    /\ sp = SpeciesSetInit
    /\ generation = 0
    /\ is_evolving = FALSE
    /\ stop = FALSE
    /\ best_genome = NoFitness
    /\ threshold = <<1, 1>>
    /\ config = DefaultConfig
    /\ genome_indexer = 1
    /\ distance_cache = GenomeDistanceCacheInit
    /\ pc = [t \in Threads |-> "idle"]
    /\ local = [t \in Threads |-> IdleLocal]
    /\ hist = HistInit

StoreRest == UNCHANGED <<generation, is_evolving, stop, best_genome, threshold, config, distance_cache,
                         pc, local, hist>>

StoreAddGenome ==
    /\ genome_indexer <= StoreMaxId
    /\ gm' = add_genome(gm, genome_indexer, NewGenome(0))
    /\ genome_indexer' = genome_indexer + 1
    /\ UNCHANGED sp /\ StoreRest

StoreRemoveGenome ==
    /\ \E id \in 1..StoreMaxId : gm' = remove_genome(gm, id)
    /\ UNCHANGED <<sp, genome_indexer>> /\ StoreRest

StoreRemoveGenomesInSpecies ==
    /\ \E sid \in sp.species : gm' = remove_genomes_in_species(gm, sid)
    /\ UNCHANGED <<sp, genome_indexer>> /\ StoreRest

StoreSetUnavailable ==
    /\ \E id \in DOMAIN gm.genomes : gm' = set_unavailable(gm, id)
    /\ UNCHANGED <<sp, genome_indexer>> /\ StoreRest

StoreSetEvaluated ==
    /\ \E id \in DOMAIN gm.genomes : gm' = set_evaluated(gm, id)
    /\ UNCHANGED <<sp, genome_indexer>> /\ StoreRest

StoreSetElite ==
    /\ \E id \in DOMAIN gm.genomes : gm' = set_elite(gm, id)
    /\ UNCHANGED <<sp, genome_indexer>> /\ StoreRest

StoreClearEvaluated ==
    /\ gm' = clear_evaluated(gm)
    /\ UNCHANGED <<sp, genome_indexer>> /\ StoreRest

StoreClearElites ==
    /\ gm' = clear_elites(gm)
    /\ UNCHANGED <<sp, genome_indexer>> /\ StoreRest

StoreAssign ==
    /\ \E id \in gm.unspeciated_genomes, sid \in sp.species :
          gm' = assign_genome_to_species(gm, id, sid)
    /\ UNCHANGED <<sp, genome_indexer>> /\ StoreRest

\* assign_genome_to_species followed by set_representative, as Speciation calls them
StoreSetRepresentative ==
    /\ \E id \in gm.unspeciated_genomes, sid \in sp.species :
          gm' = set_representative(assign_genome_to_species(gm, id, sid), sid, id)
    /\ UNCHANGED <<sp, genome_indexer>> /\ StoreRest

StoreCreateSpecies ==
    /\ new_species_id(sp) <= StoreMaxSpecies
    /\ sp' = create_new_species(sp)
    /\ UNCHANGED <<gm, genome_indexer>> /\ StoreRest

StoreRemoveSpecies ==
    /\ \E sid \in sp.species : sp' = remove_species(sp, sid)
    /\ UNCHANGED <<gm, genome_indexer>> /\ StoreRest

StoreMarkStagnant ==
    /\ \E sid \in sp.species : sp' = mark_stagnant(sp, sid)
    /\ UNCHANGED <<gm, genome_indexer>> /\ StoreRest

StoreReset ==
    /\ gm' = reset(gm)
    /\ sp' = species_reset(sp)
    /\ UNCHANGED genome_indexer /\ StoreRest

\* what the caller of a method of GenomeManager sees when it passes genome_id:
\* the exception raised, or what is returned
reference(g, call, genome_id) ==
    CASE call = "get_genome" ->
            IF genome_id \in DOMAIN g.genomes THEN "genome" ELSE "None"
      [] call = "get_fitness" ->
            IF genome_id \in DOMAIN g.genomes THEN "fitness" ELSE "AttributeError"
      [] call = "update_genome_data" ->
            IF genome_id \in DOMAIN g.genomes THEN "genome" ELSE "ValueError"
      [] call = "remove_genome" -> "None"

References == {"get_genome", "get_fitness", "update_genome_data", "remove_genome"}

\* a caller passes a key, stored or not, to one of the methods and keeps the outcome
StoreReference ==
    /\ \E id \in 1..StoreMaxId, call \in References :
          /\ gm' = IF call = "remove_genome" THEN remove_genome(gm, id) ELSE gm
          /\ local' = [local EXCEPT ![1] = [genome_id |-> id, call |-> call,
                                            result |-> reference(gm, call, id)]]
    /\ UNCHANGED <<sp, genome_indexer, generation, is_evolving, stop, best_genome,
                   threshold, config, distance_cache, pc, hist>>

StoreNext ==
    \/ StoreReference
    \/ StoreAddGenome
    \/ StoreRemoveGenome
    \/ StoreRemoveGenomesInSpecies
    \/ StoreSetUnavailable
    \/ StoreSetEvaluated
    \/ StoreSetElite
    \/ StoreClearEvaluated
    \/ StoreClearElites
    \/ StoreAssign
    \/ StoreSetRepresentative
    \/ StoreCreateSpecies
    \/ StoreRemoveSpecies
    \/ StoreMarkStagnant
    \/ StoreReset

SpecStore == StoreInit /\ [][StoreNext]_vars

\* a caller runs remove_stagnant_species(); local keeps the species set it found
\* and the species set it left
StoreRemoveStagnant ==
    /\ sp' = remove_stagnant_species(sp)
    /\ local' = [local EXCEPT ![1] = [before |-> sp, after |-> sp']]
    /\ UNCHANGED <<gm, generation, is_evolving, stop, best_genome, threshold, config,
                   distance_cache, genome_indexer, pc, hist>>

RemovalNext ==
    \/ StoreAddGenome
    \/ StoreAssign
    \/ StoreRemoveGenomesInSpecies
    \/ StoreCreateSpecies
    \/ StoreRemoveSpecies
    \/ StoreMarkStagnant
    \/ StoreReset
    \/ StoreRemoveStagnant

\* the species set under creations, removals and stagnation marks, with callers
\* of remove_stagnant_species
SpecRemoval == StoreInit /\ [][RemovalNext]_vars

\* create_offspring / create_without_parents: a new genome enters the store
RefreshAddGenome ==
    /\ genome_indexer <= StoreMaxId + 1
    /\ \E gene \in Genes : gm' = add_genome(gm, genome_indexer, NewGenome(gene))
    /\ genome_indexer' = genome_indexer + 1
    /\ UNCHANGED sp /\ StoreRest

\* the stagnation update finds the active species species_id stagnant
RefreshRetire ==
    /\ \E species_id \in sp.active \cap sp.species :
          LET u == retire_species(gm, sp, {species_id})
          IN  gm' = u.g /\ sp' = u.s
    /\ UNCHANGED genome_indexer /\ StoreRest

\* Speciation.speciate()
RefreshSpeciate ==
    /\ \E r \in speciate(gm, sp, config) :
          /\ r.ok
          /\ gm' = r.g
          /\ sp' = r.s
    /\ UNCHANGED genome_indexer /\ StoreRest

RefreshNext ==
    \/ RefreshAddGenome
    \/ RefreshRetire
    \/ RefreshSpeciate

\* speciation over a store that receives new genomes and whose species
\* stagnate
SpecRefresh == StoreInit /\ [][RefreshNext]_vars

\* the species set with the ids of the species removed so far and the id the
\* last call of create_new_species returned (0: none, or that species is gone)
IdsInit ==
    /\ gm = GenomeManagerInit
    /\ sp = SpeciesSetInit
    /\ generation = 0
    /\ is_evolving = FALSE
    /\ stop = FALSE
    /\ best_genome = NoFitness
    /\ threshold = <<1, 1>>
    /\ config = DefaultConfig
    /\ genome_indexer = 1
    /\ distance_cache = GenomeDistanceCacheInit
    /\ pc = [t \in {1} |-> "idle"]
    /\ local = [t \in {1} |-> [removed |-> {}, created |-> 0]]
    /\ hist = HistInit

IdsRest ==
    UNCHANGED <<gm, generation, is_evolving, stop, best_genome, threshold, config,
                distance_cache, genome_indexer, pc, hist>>

\* create_new_species()
IdsCreate ==
    /\ new_species_id(sp) <= StoreMaxSpecies + 1
    /\ sp' = create_new_species(sp)
    /\ local' = [local EXCEPT ![1].created = new_species_id(sp)]
    /\ IdsRest

\* remove_species(species_id)
IdsRemove ==
    /\ \E species_id \in sp.species :
          /\ sp' = remove_species(sp, species_id)
          /\ local' = [local EXCEPT ![1] = [removed |-> @.removed \cup {species_id},
                                            created |-> 0]]
    /\ IdsRest

\* reset(): the species of the dict are removed, one is created
IdsReset ==
    /\ sp' = species_reset(sp)
    /\ local' = [local EXCEPT ![1] = [removed |-> @.removed \cup sp.species,
                                      created |-> MaxOf(sp'.species)]]
    /\ IdsRest

\* compute_offspring_counts writes the records of a species
IdsSetCounts ==
    /\ \E species_id \in sp.species, n \in 0..1 :
          sp' = set_expected_offspring(set_population_deficit(sp, species_id, n),
                                       species_id, n)
    /\ UNCHANGED local /\ IdsRest

\* the stagnation update deactivates a species
IdsMarkStagnant ==
    /\ \E species_id \in sp.species \cap sp.active : sp' = mark_stagnant(sp, species_id)
    /\ UNCHANGED local /\ IdsRest

IdsNext ==
    \/ IdsCreate
    \/ IdsRemove
    \/ IdsReset
    \/ IdsSetCounts
    \/ IdsMarkStagnant

\* the species set under creations, removals and resets
SpecIds == IdsInit /\ [][IdsNext]_vars

----------------------------------------------------------------------------
(* PopulationEvolver.advance_population: the stages of one cycle as functions *)
(* of the evolver's state m; each returns its possible outcomes, with the    *)
(* stage that follows or the exception that ends the handler in `to`.        *)

Stages == {"best", "stagnate", "reproduce", "speciate"}

Errors == {"ValueError", "KeyError", "AttributeError", "ZeroDivisionError",
           "CompleteExtinctionException"}

\* get_best, track_best_genome, fitness_goal_reached, terminate_evolution
track_best(m, c) ==
    IF ~EvaluatedStored(m.gm) THEN {[m |-> m, to |-> "KeyError"]}
    ELSE IF m.gm.evaluated_genomes = {} THEN {[m |-> m, to |-> "ValueError"]}
    ELSE LET best == get_best(m.gm)
             m1 == [m EXCEPT !.best_genome = IF @ = NoFitness \/ best > @ THEN best ELSE @]
         IN  IF ~c.no_fitness_termination /\ best >= c.fitness_threshold
             THEN {[m |-> [m1 EXCEPT !.stop = TRUE], to |-> "finish"]}
             ELSE {[m |-> m1, to |-> "stagnate"]}

\* handle_extinction with an indexer that starts again at 1 for the new population
handle_extinction_restarting_ids(m, c) ==
    IF c.reset_on_extinction
    THEN UNION {{[m |-> [m EXCEPT !.gm = r.g, !.sp = r.s,
                                  !.genome_indexer = 1 + c.pop_size,
                                  !.extinctions = @ + 1],
                  to |-> IF r.ok THEN "reproduce" ELSE "AttributeError"] :
                    r \in create_new_population(m.gm, m.sp, c, 1, genes)} :
                genes \in [1 .. c.pop_size -> c.genes]}
    ELSE {[m |-> [m EXCEPT !.extinctions = @ + 1],
           to |-> "CompleteExtinctionException"]}

\* handle_extinction creating the genomes without partitioning them into species
handle_extinction_unspeciated(m, c) ==
    LET fresh == m.genome_indexer .. (m.genome_indexer + c.pop_size - 1)
    IN  IF c.reset_on_extinction
        THEN {[m |-> [m EXCEPT !.gm = add_genomes(reset(m.gm), fresh, genes),
                                 !.sp = species_reset(m.sp),
                                 !.genome_indexer = @ + c.pop_size,
                                 !.extinctions = @ + 1],
               to |-> "reproduce"] : genes \in [fresh -> c.genes]}
        ELSE {[m |-> [m EXCEPT !.extinctions = @ + 1],
               to |-> "CompleteExtinctionException"]}

\* handle_extinction raising once for every species of the species set
handle_extinction_per_species(m, c) ==
    {[m |-> [m EXCEPT !.extinctions = @ + Cardinality(m.sp.species)],
      to |-> "CompleteExtinctionException"]}

\* handle_extinction: reporters.complete_extinction(), then a new population
\* or CompleteExtinctionException
handle_extinction(m, c) ==
    LET fresh == m.genome_indexer .. (m.genome_indexer + c.pop_size - 1)
    IN  IF c.reset_on_extinction
        THEN UNION {{[m |-> [m EXCEPT !.gm = r.g, !.sp = r.s,
                                      !.genome_indexer = @ + c.pop_size,
                                      !.extinctions = @ + 1],
                      to |-> IF r.ok THEN "reproduce" ELSE "AttributeError"] :
                        r \in create_new_population(m.gm, m.sp, c, m.genome_indexer, genes)} :
                    genes \in [fresh -> c.genes]}
        ELSE {[m |-> [m EXCEPT !.extinctions = @ + 1],
               to |-> "CompleteExtinctionException"]}

\* stagnation.update_active_species(), check_and_handle_extinction()
stagnate(m, c) ==
    LET u == update_active_species(m.gm, m.sp, c)
        m1 == [m EXCEPT !.gm = u.g, !.sp = u.s]
    IN  IF get_active_species(u.s) # {}
        THEN {[m |-> m1, to |-> "reproduce"]}
        ELSE handle_extinction(m1, c)

\* what reproduce() did: the species it went through, the genomes it marked
\* elite and removed, the children and the expected offspring per species
Seen(r) ==
    [species |-> r.st.processed, marked |-> r.st.marked, removed |-> r.st.removed,
     spawn |-> r.st.spawn,
     quota |-> [species_id \in r.st.processed |-> r.s.expected_offspring[species_id]]]

\* update_generation leaving the counter as it is
update_generation_skipped(g) ==
    g

\* PopulationManager.update_generation: self.generation += 1
update_generation(g) ==
    g + 1

\* reproduction.reproduce(), manager.update_generation()
reproduction(m, c) ==
    {IF r.st.ok
     THEN [m |-> [m EXCEPT !.gm = r.st.g, !.genome_indexer = r.st.indexer,
                           !.sp = set_generation(r.s, update_generation(m.generation)),
                           !.generation = update_generation(@), !.last = Seen(r)],
           to |-> "speciate"]
     ELSE [m |-> [m EXCEPT !.gm = r.st.g, !.genome_indexer = r.st.indexer, !.sp = r.s,
                           !.last = Seen(r)],
           to |-> r.st.err]
     : r \in reproduce(m.gm, m.sp, c, m.genome_indexer)}

\* speciation.speciate(), report_generation_end()
speciation(m, c) ==
    {[m |-> [m EXCEPT !.gm = r.g, !.sp = r.s],
      to |-> IF r.ok THEN "finish" ELSE "AttributeError"] : r \in speciate(m.gm, m.sp, c)}

stage(label, m, c) ==
    CASE label = "best" -> track_best(m, c)
      [] label = "stagnate" -> stagnate(m, c)
      [] label = "reproduce" -> reproduction(m, c)
      [] label = "speciate" -> speciation(m, c)

\* the body of advance_population between the two writes of is_evolving
RECURSIVE advance_population(_, _, _)
advance_population(label, m, c) ==
    IF label \notin Stages THEN {[m |-> m, to |-> label]}
    ELSE UNION {advance_population(r.to, r.m, c) : r \in stage(label, m, c)}

----------------------------------------------------------------------------
(* The running program: the experiment creates the population, clients     *)
(* submit evaluations, each submission is handled by a worker thread of the *)
(* HTTP runtime.  A handler that raises ends there and leaves the state as  *)
(* it is.                                                                   *)

Workers == DOMAIN pc

Goto(t, label) == pc' = [pc EXCEPT ![t] = label]

\* the handler of thread t ends
Return(t) ==
    /\ pc' = [pc EXCEPT ![t] = "idle"]
    /\ local' = [local EXCEPT ![t] = IdleLocal]

\* the evolver's state the stages work on
Evolver ==
    [gm |-> gm, sp |-> sp, generation |-> generation, genome_indexer |-> genome_indexer,
     best_genome |-> best_genome, stop |-> stop, last |-> hist.last,
     extinctions |-> hist.extinctions]

\* thread t runs a stage with one of the outcomes in `outcomes`
Run(t, outcomes) ==
    /\ \E r \in outcomes :
          /\ r.m.genome_indexer - 1 <= config.pop_size + MaxOffspring
          /\ gm' = r.m.gm
          /\ sp' = r.m.sp
          /\ generation' = r.m.generation
          /\ genome_indexer' = r.m.genome_indexer
          /\ best_genome' = r.m.best_genome
          /\ stop' = r.m.stop
          /\ hist' = [hist EXCEPT !.last = r.m.last, !.extinctions = r.m.extinctions]
          /\ Goto(t, r.to)
    /\ UNCHANGED <<is_evolving, threshold, config, distance_cache, local>>

\* ids a client can submit: the placeholder and the keys created so far
SubmittedIds == {PlaceholderId} \cup (1..(genome_indexer - 1))

\* PopulationEvolver.create_new_population, called once when the experiment starts
Start ==
    /\ ~hist.started
    /\ \E genes \in [genome_indexer .. (genome_indexer + config.pop_size - 1)
                         -> config.genes] :
       \E r \in create_new_population(gm, sp, config, genome_indexer, genes) :
          /\ r.ok
          /\ gm' = r.g
          /\ sp' = r.s
    /\ genome_indexer' = genome_indexer + config.pop_size
    /\ hist' = [hist EXCEPT !.started = TRUE]
    /\ UNCHANGED <<generation, is_evolving, stop, best_genome, threshold, config, distance_cache, pc, local>>

\* handle_receive_user_data / receive_evaluation up to update_genome_data
Receive(t) ==
    /\ pc[t] = "idle"
    /\ hist.started
    /\ generation < MaxGeneration
    /\ \E genome_id \in SubmittedIds :
          IF genome_id = PlaceholderId
          THEN Goto(t, "check") /\ UNCHANGED local
          ELSE IF genome_id \notin DOMAIN gm.genomes
          THEN Goto(t, "ValueError") /\ UNCHANGED local
          ELSE /\ Goto(t, "evaluate")
               /\ local' = [local EXCEPT ![t] = [genome_id |-> genome_id]]
    /\ UNCHANGED <<gm, sp, generation, is_evolving, stop, best_genome, threshold, config, distance_cache,
                   genome_indexer, hist>>

\* Evaluation.evaluate(genome), the fitness function giving `fitness`
EvaluateAs(t, fitness) ==
    /\ pc[t] = "evaluate"
    /\ gm' = evaluate(gm, local[t].genome_id, fitness)
    /\ Goto(t, "check")
    /\ UNCHANGED <<sp, generation, is_evolving, stop, best_genome, threshold, config, distance_cache,
                   genome_indexer, local, hist>>

Evaluate(t) == \E fitness \in Fitnesses : EvaluateAs(t, fitness)

\* if self.evaluation.threshold_reached() and not self.is_evolving
Check(t) ==
    /\ pc[t] = "check"
    /\ IF ~EvaluatedStored(gm)
       THEN Goto(t, "KeyError") /\ UNCHANGED local
       ELSE IF threshold_reached(gm, threshold) /\ ~is_evolving
       THEN Goto(t, "advance") /\ UNCHANGED local
       ELSE Return(t)
    /\ UNCHANGED <<gm, sp, generation, is_evolving, stop, best_genome, threshold, config, distance_cache,
                   genome_indexer, hist>>

\* advance_population: self.is_evolving = True
AdvanceBegin(t) ==
    /\ pc[t] = "advance"
    /\ is_evolving' = TRUE
    /\ Goto(t, "best")
    /\ UNCHANGED <<gm, sp, generation, stop, best_genome, threshold, config, distance_cache,
                   genome_indexer, local, hist>>

TrackBest(t) == pc[t] = "best" /\ Run(t, track_best(Evolver, config))

Stagnate(t) == pc[t] = "stagnate" /\ Run(t, stagnate(Evolver, config))

Reproduce(t) == pc[t] = "reproduce" /\ Run(t, reproduction(Evolver, config))

Speciate(t) == pc[t] = "speciate" /\ Run(t, speciation(Evolver, config))

\* the whole body of advance_population, uninterrupted
Advance(t) == pc[t] = "best" /\ Run(t, advance_population("best", Evolver, config))

\* advance_population: self.is_evolving = False, back in the caller
Finish(t) ==
    /\ pc[t] = "finish"
    /\ is_evolving' = FALSE
    /\ IF config.entry = "evolver"
       THEN Goto(t, "clear_elites") /\ UNCHANGED local
       ELSE Return(t)
    /\ UNCHANGED <<gm, sp, generation, stop, best_genome, threshold, config, distance_cache,
                   genome_indexer, hist>>

\* handle_receive_user_data: self.manager.genomes.clear_elites()
ClearElites(t) ==
    /\ pc[t] = "clear_elites"
    /\ gm' = clear_elites(gm)
    /\ Goto(t, "clear_evaluated")
    /\ UNCHANGED <<sp, generation, is_evolving, stop, best_genome, threshold, config, distance_cache,
                   genome_indexer, local, hist>>

\* handle_receive_user_data: self.manager.genomes.clear_evaluated()
ClearEvaluated(t) ==
    /\ pc[t] = "clear_evaluated"
    /\ gm' = clear_evaluated(gm)
    /\ Return(t)
    /\ UNCHANGED <<sp, generation, is_evolving, stop, best_genome, threshold, config, distance_cache,
                   genome_indexer, hist>>

\* the exception leaves the handler: the runtime logs it, the thread is free again
Unwind(t) ==
    /\ pc[t] \in Errors
    /\ Return(t)
    /\ UNCHANGED <<gm, sp, generation, is_evolving, stop, best_genome, threshold, config, distance_cache,
                   genome_indexer, hist>>

\* concurrent submissions of the first generation
Next ==
    \/ Start
    \/ \E t \in Workers : generation = 0 /\ Receive(t)
    \/ \E t \in Workers : Evaluate(t)
    \/ \E t \in Workers : Check(t)
    \/ \E t \in Workers : AdvanceBegin(t)
    \/ \E t \in Workers : Advance(t)
    \/ \E t \in Workers : Finish(t)
    \/ \E t \in Workers : ClearElites(t)
    \/ \E t \in Workers : ClearEvaluated(t)
    \/ \E t \in Workers : Unwind(t)

\* submissions handled one at a time, the cycle stage by stage
CycleNext ==
    \/ Start
    \/ \E t \in Workers : Receive(t)
    \/ \E t \in Workers : Evaluate(t)
    \/ \E t \in Workers : Check(t)
    \/ \E t \in Workers : AdvanceBegin(t)
    \/ \E t \in Workers : TrackBest(t)
    \/ \E t \in Workers : Stagnate(t)
    \/ \E t \in Workers : Reproduce(t)
    \/ \E t \in Workers : Speciate(t)
    \/ \E t \in Workers : Finish(t)
    \/ \E t \in Workers : ClearElites(t)
    \/ \E t \in Workers : ClearEvaluated(t)
    \/ \E t \in Workers : Unwind(t)

Constructed(c, th, workers) ==
    /\ gm = GenomeManagerInit
    /\ sp = SpeciesSetInit
    /\ generation = 0
    /\ is_evolving = FALSE
    /\ stop = FALSE
    /\ best_genome = NoFitness
    /\ threshold = th
    /\ config = c
    /\ genome_indexer = 1
    /\ distance_cache = GenomeDistanceCacheInit
    /\ pc = [t \in workers |-> "idle"]
    /\ local = [t \in workers |-> IdleLocal]
    /\ hist = HistInit

Init == Constructed(NarrowConfig, <<1, 1>>, Threads)

Spec == Init /\ [][Next]_vars

CycleInit ==
    \E c \in {SmallSpeciesConfig, ExperimentConfig} : Constructed(c, <<1, 1>>, {1})

SpecCycle == CycleInit /\ [][CycleNext]_vars

\* the cycle with a reproduction cutoff of one parent
SpecParents == Constructed(SingleParentConfig, <<1, 1>>, {1}) /\ [][CycleNext]_vars

\* the same, with or without a population that is recreated on extinction
ResetInit == \E c \in {SmallSpeciesConfig, ResetConfig} : Constructed(c, <<1, 1>>, {1})

SpecReset == ResetInit /\ [][CycleNext]_vars

\* the same, without a minimum species size
SpecNoMinimum == Constructed(NoMinimumConfig, <<1, 1>>, {1}) /\ [][CycleNext]_vars

\* the endpoint that hands out a genome; requests are served one at a time,
\* whatever the worker is doing.  local[Endpoint] keeps what the last request
\* returned
Endpoint == 0

return_random_individual ==
    /\ hist.started
    /\ \E r \in get_random_available_genome(gm) :
          /\ gm' = r.g
          /\ local' = [local EXCEPT ![Endpoint] =
                          [genome_id |-> r.genome_id, result |-> r.result]]
    /\ UNCHANGED <<sp, generation, is_evolving, stop, best_genome, threshold, config,
                   distance_cache, genome_indexer, pc, hist>>

RequestInit ==
    /\ gm = GenomeManagerInit
    /\ sp = SpeciesSetInit
    /\ generation = 0
    /\ is_evolving = FALSE
    /\ stop = FALSE
    /\ best_genome = NoFitness
    /\ threshold = <<1, 1>>
    /\ config \in {PairConfig, ResetConfig}
    /\ genome_indexer = 1
    /\ distance_cache = GenomeDistanceCacheInit
    /\ pc = [t \in {1} |-> "idle"]
    /\ local = [t \in {Endpoint, 1} |-> [genome_id |-> PlaceholderId, result |-> "idle"]]
    /\ hist = HistInit

RequestNext ==
    \/ Start
    \/ return_random_individual
    \/ \E t \in Workers : Receive(t)
    \/ \E t \in Workers : Evaluate(t)
    \/ \E t \in Workers : Check(t)
    \/ \E t \in Workers : AdvanceBegin(t)
    \/ \E t \in Workers : TrackBest(t)
    \/ \E t \in Workers : Stagnate(t)
    \/ \E t \in Workers : Reproduce(t)
    \/ \E t \in Workers : Speciate(t)
    \/ \E t \in Workers : Finish(t)
    \/ \E t \in Workers : ClearElites(t)
    \/ \E t \in Workers : ClearEvaluated(t)
    \/ \E t \in Workers : Unwind(t)

\* the cycle of a population of two, with requests for a genome
SpecRequest == RequestInit /\ [][RequestNext]_vars

\* two handler threads and the endpoint; local[Endpoint].awaiting keeps the
\* genomes handed out whose evaluation has not been accepted yet
AcceptInit ==
    /\ gm = GenomeManagerInit
    /\ sp = SpeciesSetInit
    /\ generation = 0
    /\ is_evolving = FALSE
    /\ stop = FALSE
    /\ best_genome = NoFitness
    /\ threshold = <<1, 1>>
    /\ config = [PairConfig EXCEPT !.genes = 0..1]
    /\ genome_indexer = 1
    /\ distance_cache = GenomeDistanceCacheInit
    /\ pc = [t \in Threads |-> "idle"]
    /\ local = [t \in {Endpoint} \cup Threads |->
                   [genome_id |-> PlaceholderId, result |-> "idle", awaiting |-> {}]]
    /\ hist = HistInit

\* return_random_individual, the genome handed out awaits its evaluation
HandOut ==
    /\ hist.started
    /\ \E r \in get_random_available_genome(gm) :
          /\ gm' = r.g
          /\ local' = [local EXCEPT ![Endpoint] =
                          [genome_id |-> r.genome_id, result |-> r.result,
                           awaiting |-> IF r.result = "genome"
                                        THEN @.awaiting \cup {r.genome_id}
                                        ELSE @.awaiting]]
    /\ UNCHANGED <<sp, generation, is_evolving, stop, best_genome, threshold, config,
                   distance_cache, genome_indexer, pc, hist>>

\* a client submits the evaluation of the genome it was handed, once, or the
\* placeholder
Submit(t) ==
    /\ Receive(t)
    /\ pc'[t] = "evaluate" =>
          /\ local'[t].genome_id \in local[Endpoint].awaiting
          /\ \A other \in Workers :
                pc[other] = "evaluate" => local[other].genome_id # local'[t].genome_id

\* Evaluation.evaluate(genome): the evaluation of the genome is accepted
Accept(t) ==
    /\ pc[t] = "evaluate"
    /\ \E fitness \in Fitnesses : gm' = evaluate(gm, local[t].genome_id, fitness)
    /\ Goto(t, "check")
    /\ local' = [local EXCEPT ![Endpoint].awaiting = @ \ {local[t].genome_id}]
    /\ UNCHANGED <<sp, generation, is_evolving, stop, best_genome, threshold, config,
                   distance_cache, genome_indexer, hist>>

AcceptNext ==
    \/ Start
    \/ HandOut
    \/ \E t \in Workers : Submit(t)
    \/ \E t \in Workers : Accept(t)
    \/ \E t \in Workers : Check(t)
    \/ \E t \in Workers : AdvanceBegin(t)
    \/ \E t \in Workers : Advance(t)
    \/ \E t \in Workers : Finish(t)
    \/ \E t \in Workers : ClearElites(t)
    \/ \E t \in Workers : ClearEvaluated(t)
    \/ \E t \in Workers : Unwind(t)

\* concurrent submissions and requests, the cycle as one step
SpecAccept == AcceptInit /\ [][AcceptNext]_vars

\* a client submits the evaluation of a genome it was handed and has not
\* submitted yet
SubmitHandedOut(t) ==
    /\ Receive(t)
    /\ pc'[t] = "evaluate"
    /\ local'[t].genome_id \in local[Endpoint].awaiting

\* one handler thread and the endpoint, nothing handed out yet
ProgressInit ==
    /\ gm = GenomeManagerInit
    /\ sp = SpeciesSetInit
    /\ generation = 0
    /\ is_evolving = FALSE
    /\ stop = FALSE
    /\ best_genome = NoFitness
    /\ threshold = <<1, 1>>
    /\ config = [SingleParentConfig EXCEPT !.genes = 0..1]
    /\ genome_indexer = 1
    /\ distance_cache = GenomeDistanceCacheInit
    /\ pc = [t \in {1} |-> "idle"]
    /\ local = [t \in {Endpoint, 1} |->
                   [genome_id |-> PlaceholderId, result |-> "idle", awaiting |-> {}]]
    /\ hist = HistInit

\* clients that request genomes and submit what they were handed, one handler
ProgressNext ==
    \/ Start
    \/ HandOut
    \/ \E t \in Workers : SubmitHandedOut(t)
    \/ \E t \in Workers : Accept(t)
    \/ \E t \in Workers : Check(t)
    \/ \E t \in Workers : AdvanceBegin(t)
    \/ \E t \in Workers : TrackBest(t)
    \/ \E t \in Workers : Stagnate(t)
    \/ \E t \in Workers : Reproduce(t)
    \/ \E t \in Workers : Speciate(t)
    \/ \E t \in Workers : Finish(t)
    \/ \E t \in Workers : ClearElites(t)
    \/ \E t \in Workers : ClearEvaluated(t)
    \/ \E t \in Workers : Unwind(t)

\* the steps of a handler other than stagnation and reproduction
HandlerStep(t) ==
    \/ Accept(t)
    \/ Check(t)
    \/ AdvanceBegin(t)
    \/ TrackBest(t)
    \/ Speciate(t)
    \/ Finish(t)
    \/ ClearElites(t)
    \/ ClearEvaluated(t)
    \/ Unwind(t)

\* the population is created, free genomes keep being requested, what was
\* handed out is submitted, and a handler that runs goes on to its end: it
\* takes its next step and stays neither in stagnation nor in reproduction
Progressing ==
    /\ WF_vars(Start \/ HandOut)
    /\ WF_vars(\E t \in Workers : SubmitHandedOut(t))
    /\ WF_vars(\E t \in Workers : HandlerStep(t))
    /\ []<>(\A t \in Workers : pc[t] \notin {"stagnate", "reproduce"})

SpecProgress == ProgressInit /\ [][ProgressNext]_vars /\ Progressing

\* the same, with a fitness goal that can be reached
SpecGoal == Constructed(GoalConfig, <<1, 1>>, {1}) /\ [][CycleNext]_vars

\* Evaluation.set_threshold, called between two submissions: the whole
\* population, or two thirds of it
SetThreshold ==
    /\ hist.started
    /\ \A t \in Workers : pc[t] = "idle"
    /\ \E th \in {<<1, 1>>, <<2, 3>>} : th # threshold /\ threshold' = th
    /\ UNCHANGED <<gm, sp, generation, is_evolving, stop, best_genome, config, distance_cache,
                   genome_indexer, pc, local, hist>>

ThresholdNext ==
    \/ Start
    \/ SetThreshold
    \/ \E t \in Workers : Receive(t)
    \/ \E t \in Workers : Evaluate(t)
    \/ \E t \in Workers : Check(t)
    \/ \E t \in Workers : AdvanceBegin(t)
    \/ \E t \in Workers : TrackBest(t)
    \/ \E t \in Workers : Stagnate(t)
    \/ \E t \in Workers : Reproduce(t)
    \/ \E t \in Workers : Speciate(t)
    \/ \E t \in Workers : Finish(t)
    \/ \E t \in Workers : ClearElites(t)
    \/ \E t \in Workers : ClearEvaluated(t)
    \/ \E t \in Workers : Unwind(t)

SpecThreshold == Constructed(NarrowConfig, <<1, 1>>, {1}) /\ [][ThresholdNext]_vars

----------------------------------------------------------------------------
(* The scenario of ten genomes: genome i holds gene i and is evaluated with   *)
(* fitness i, every genome once, through handle_receive_user_data.           *)

ScenarioGenes == [genome_id \in 1..ScenarioConfig.pop_size |-> genome_id]

ScenarioInit ==
    /\ \E r \in create_new_population(GenomeManagerInit, SpeciesSetInit, ScenarioConfig, 1,
                                      ScenarioGenes) :
          /\ r.ok
          /\ gm = r.g
          /\ sp = r.s
    /\ generation = 0
    /\ is_evolving = FALSE
    /\ stop = FALSE
    /\ best_genome = NoFitness
    /\ threshold = <<1, 1>>
    /\ config = ScenarioConfig
    /\ genome_indexer = ScenarioConfig.pop_size + 1
    /\ distance_cache = GenomeDistanceCacheInit
    /\ pc = [t \in {1} |-> "idle"]
    /\ local = [t \in {1} |-> IdleLocal]
    /\ hist = [HistInit EXCEPT !.started = TRUE]

\* a genome of the first generation not evaluated yet is submitted
ScenarioReceive(t) ==
    /\ generation = 0
    /\ \E genome_id \in DOMAIN gm.genomes \ gm.evaluated_genomes :
          /\ pc[t] = "idle"
          /\ Goto(t, "evaluate")
          /\ local' = [local EXCEPT ![t] = [genome_id |-> genome_id]]
    /\ UNCHANGED <<gm, sp, generation, is_evolving, stop, best_genome, threshold, config, distance_cache,
                   genome_indexer, hist>>

ScenarioEvaluate(t) == EvaluateAs(t, local[t].genome_id)

ScenarioNext ==
    \/ \E t \in Workers : ScenarioReceive(t)
    \/ \E t \in Workers : ScenarioEvaluate(t)
    \/ \E t \in Workers : Check(t)
    \/ \E t \in Workers : AdvanceBegin(t)
    \/ \E t \in Workers : TrackBest(t)
    \/ \E t \in Workers : Stagnate(t)
    \/ \E t \in Workers : Reproduce(t)
    \/ \E t \in Workers : Speciate(t)
    \/ \E t \in Workers : Finish(t)
    \/ \E t \in Workers : ClearElites(t)
    \/ \E t \in Workers : ClearEvaluated(t)

SpecScenario == ScenarioInit /\ [][ScenarioNext]_vars

----------------------------------------------------------------------------
(* MixedGenerationStagnation._identify_stagnant_species as a function of its *)
(* inputs: species with any fitnesses and any generations of last            *)
(* improvement up to the current one, any max_stagnation and species_elitism *)
(* within the bounds.  The result is a local of the call.                    *)

StagnationInit ==
    /\ gm = GenomeManagerInit
    /\ \E n \in 1..(StoreMaxSpecies + 1), g \in 0..MaxGeneration :
          \E fitnesses \in [1..n -> Fitnesses], improved \in [1..n -> 0..g] :
             /\ sp = [SpeciesSetInit EXCEPT !.generation = g,
                                            !.species = 1..n,
                                            !.active = 1..n,
                                            !.current_fitnesses = fitnesses,
                                            !.best_fitnesses = fitnesses,
                                            !.last_improved = improved]
             /\ generation = g
    /\ is_evolving = FALSE
    /\ stop = FALSE
    /\ best_genome = NoFitness
    /\ threshold = <<1, 1>>
    /\ \E max_stagnation \in 0..1, species_elitism \in 0..StoreMaxSpecies :
          config = [DefaultConfig EXCEPT !.max_stagnation = max_stagnation,
                                         !.species_elitism = species_elitism]
    /\ genome_indexer = 1
    /\ distance_cache = GenomeDistanceCacheInit
    /\ pc = [t \in {1} |-> "idle"]
    /\ local = [t \in {1} |-> IdleLocal]
    /\ hist = HistInit

\* result = self._identify_stagnant_species(species_data, generation)
IdentifyStagnant(t) ==
    /\ pc[t] = "idle"
    /\ local' = [local EXCEPT ![t] =
                     [genome_id |-> PlaceholderId,
                      result |-> stagnant_species(sp, config, sp.species)]]
    /\ Goto(t, "identified")
    /\ UNCHANGED <<gm, sp, generation, is_evolving, stop, best_genome, threshold, config, distance_cache,
                   genome_indexer, hist>>

StagnationNext == \E t \in Workers : IdentifyStagnant(t)

SpecStagnation == StagnationInit /\ [][StagnationNext]_vars

----------------------------------------------------------------------------
(* SpecDistance: the GenomeDistanceCache of Speciation called with any two  *)
(* stored genomes, one call after the other.                                *)

DistanceInit ==
    /\ \E genes \in [1..(StoreMaxId + 1) -> Genes] :
          gm = add_genomes(GenomeManagerInit, 1..(StoreMaxId + 1), genes)
    /\ sp = SpeciesSetInit
    /\ generation = 0
    /\ is_evolving = FALSE
    /\ stop = FALSE
    /\ best_genome = NoFitness
    /\ threshold = <<1, 1>>
    /\ config = DefaultConfig
    /\ genome_indexer = StoreMaxId + 2
    /\ distance_cache = GenomeDistanceCacheInit
    /\ pc = [t \in {1} |-> "idle"]
    /\ local = [t \in {1} |-> IdleLocal]
    /\ hist = HistInit

\* self.distance_cache(genome_a, genome_b)
DistanceCall ==
    /\ distance_cache.hits < MaxHits
    /\ \E genome0 \in DOMAIN gm.genomes, genome1 \in DOMAIN gm.genomes :
          distance_cache' = distance_cache_call(distance_cache, gm, genome0, genome1).cache
    /\ UNCHANGED <<gm, sp, generation, is_evolving, stop, best_genome, threshold, config,
                   genome_indexer, pc, local, hist>>

DistanceNext == DistanceCall

SpecDistance == DistanceInit /\ [][DistanceNext]_vars

----------------------------------------------------------------------------
(* SpecPartition: the body of the loop of partition_population applied to   *)
(* the unspeciated genomes of a new population, one genome after the other. *)

PartitionInit ==
    /\ \E genes \in [1..(StoreMaxId + 1) -> Genes] :
          gm = add_genomes(GenomeManagerInit, 1..(StoreMaxId + 1), genes)
    /\ sp = SpeciesSetInit
    /\ generation = 0
    /\ is_evolving = FALSE
    /\ stop = FALSE
    /\ best_genome = NoFitness
    /\ threshold = <<1, 1>>
    /\ \E compatibility_threshold \in 1..MaxGene :
          config = [DefaultConfig EXCEPT !.compatibility_threshold = compatibility_threshold]
    /\ genome_indexer = StoreMaxId + 2
    /\ distance_cache = GenomeDistanceCacheInit
    /\ pc = [t \in {1} |-> "idle"]
    /\ local = [t \in {1} |-> IdleLocal]
    /\ hist = HistInit

\* for genome in get_unspeciated_genomes(): get_compatible_genomes, then the
\* closest compatible species or a new one
PartitionGenome ==
    /\ \E genome \in gm.unspeciated_genomes :
          LET st == partition_genome([g |-> gm, s |-> sp], config, genome)
          IN  gm' = st.g /\ sp' = st.s
    /\ UNCHANGED <<generation, is_evolving, stop, best_genome, threshold, config,
                   genome_indexer, distance_cache, pc, local, hist>>

PartitionNext == PartitionGenome

SpecPartition == PartitionInit /\ [][PartitionNext]_vars

----------------------------------------------------------------------------
(* SpecImprovement: the fitness history of one species updated once per     *)
(* generation with any fitness, on the species object (stagnation.py) and   *)
(* in the species set (species_set.py).                                     *)

\* MixedGenerationSpecies.__init__: fitness None, no history
NewSpecies == [fitness |-> NoSpeciesFitness, fitness_history |-> <<>>, last_improved |-> 0]

SpeciesFitnesses == NoSpeciesFitness..MaxFitness

ImprovementInit ==
    /\ gm = GenomeManagerInit
    /\ sp = create_new_species(SpeciesSetInit)
    /\ generation = 0
    /\ is_evolving = FALSE
    /\ stop = FALSE
    /\ best_genome = NoFitness
    /\ threshold = <<1, 1>>
    /\ config = DefaultConfig
    /\ genome_indexer = 1
    /\ distance_cache = GenomeDistanceCacheInit
    /\ pc = [t \in {1} |-> "idle"]
    /\ local = [t \in {1} |-> [genome_id |-> PlaceholderId, species |-> NewSpecies]]
    /\ hist = HistInit

\* the stagnation update of the next generation
UpdateFitnessHistory ==
    /\ generation <= MaxGeneration
    /\ generation' = generation + 1
    /\ \E fitness \in SpeciesFitnesses :
          /\ local' = [local EXCEPT ![1].species =
                           update_fitness_history(@, fitness, generation')]
          /\ sp' = update_species_fitness(set_generation(sp, generation'), 1, fitness)
    /\ UNCHANGED <<gm, is_evolving, stop, best_genome, threshold, config,
                   genome_indexer, distance_cache, pc, hist>>

ImprovementNext == UpdateFitnessHistory

SpecImprovement == ImprovementInit /\ [][ImprovementNext]_vars

----------------------------------------------------------------------------
(* SpecSpeciesFitness: the stagnation update of one species whose members   *)
(* have any fitnesses, with any list of evaluated ids, for each of the      *)
(* species fitness functions of the configuration.                          *)

SpeciesFitnessInit ==
    /\ gm = GenomeManagerInit
    /\ sp = create_new_species(SpeciesSetInit)
    /\ generation = 0
    /\ is_evolving = FALSE
    /\ stop = FALSE
    /\ best_genome = NoFitness
    /\ threshold = <<1, 1>>
    /\ \E name \in StatFunctions : config = [species_fitness_func |-> name] @@ DefaultConfig
    /\ genome_indexer = 1
    /\ distance_cache = GenomeDistanceCacheInit
    /\ pc = [t \in {1} |-> "idle"]
    /\ \E members \in [1..StoreMaxId -> 0..MaxFitness] :
          local = [t \in {1} |-> [genome_id |-> PlaceholderId, species |-> NewSpecies,
                                  members |-> members, evaluated_genome_ids |-> {},
                                  result |-> "idle"]]
    /\ hist = HistInit

\* update_species_fitness and the loop body of _update_fitness_history_for_species
\* for the species; an exception of the fitness function leaves the species as
\* it is and ends the update
UpdateSpeciesFitness ==
    /\ generation <= MaxGeneration
    /\ \E evaluated_genome_ids \in SUBSET (1..StoreMaxId) :
          LET r == stat_functions(config.species_fitness_func,
                                  get_fitnesses(local[1].members, evaluated_genome_ids))
          IN  IF r.err # "none"
              THEN /\ local' = [local EXCEPT ![1].evaluated_genome_ids = evaluated_genome_ids,
                                             ![1].result = r.err]
                   /\ UNCHANGED generation
              ELSE /\ local' = [local EXCEPT
                                   ![1].species = update_fitness_history(@, r.value,
                                                                         generation + 1),
                                   ![1].evaluated_genome_ids = evaluated_genome_ids,
                                   ![1].result = "updated"]
                   /\ generation' = generation + 1
    /\ UNCHANGED <<gm, sp, is_evolving, stop, best_genome, threshold, config,
                   genome_indexer, distance_cache, pc, hist>>

SpeciesFitnessNext == UpdateSpeciesFitness

SpecSpeciesFitness == SpeciesFitnessInit /\ [][SpeciesFitnessNext]_vars

----------------------------------------------------------------------------
(* Claims on the genome store *)

Alive == DOMAIN gm.genomes

\* C2: every alive genome id is in at most one of the sets free, evaluated, elite
C2_AtMostOneLifecycleSet ==
    \A id \in Alive :
        /\ ~(id \in gm.free_genomes /\ id \in gm.evaluated_genomes)
        /\ ~(id \in gm.free_genomes /\ id \in gm.elite_genomes)
        /\ ~(id \in gm.evaluated_genomes /\ id \in gm.elite_genomes)

\* C3: every alive genome id is either unspeciated or mapped by genome_species_map
\* to a species that exists in the species set, never both and never neither
C3_UnspeciatedXorInSpecies ==
    \A id \in Alive :
        (id \in gm.unspeciated_genomes)
            # (id \in DOMAIN gm.genome_species_map /\ gm.genome_species_map[id] \in sp.species)

----------------------------------------------------------------------------
(* Claims on the advance cycle *)

\* the positions of a handler between the two writes of is_evolving
Advancing == Stages \cup {"finish"}

\* C1: at most one handler is inside advance_population at any time
C1_AtMostOneAdvance ==
    Cardinality({t \in Workers : pc[t] \in Advancing}) <= 1

\* speciate() returns: in the cycle, or in create_new_population
SpeciateReturned ==
    \/ \E t \in Workers : pc[t] = "speciate" /\ pc'[t] = "finish"
    \/ ~hist.started /\ hist'.started

\* C4: after speciate() returns the unspeciated set is empty and every alive
\* genome is mapped to one species of the species set
C4_PartitionComplete ==
    [][SpeciateReturned =>
          /\ gm'.unspeciated_genomes = {}
          /\ \A id \in DOMAIN gm'.genomes :
                /\ id \in DOMAIN gm'.genome_species_map
                /\ gm'.genome_species_map[id] \in sp'.species]_vars

\* speciate() has returned in a cycle that removed parents and created children
C4_Witness ==
    /\ \E t \in Workers : pc[t] = "finish"
    /\ hist.last.removed # {}
    /\ gm.unspeciated_genomes = {}
    /\ \E id \in DOMAIN gm.genomes : id > config.pop_size

\* the loop of reproduce() ends, normally or with an exception
ReproduceEnded == \E t \in Workers : pc[t] = "reproduce" /\ pc'[t] # "reproduce"

\* the genomes of a species that reproduce() removed
RemovedIn(species_id) == get_genomes_in_species(gm, species_id) \ DOMAIN gm'.genomes

\* C5: the genomes removed for a species in a cycle are exactly its evaluated
\* members that are not in the elite set, and no genome marked elite in the
\* cycle is removed
C5_ElitesNotRemoved ==
    [][ReproduceEnded =>
          /\ \A species_id \in hist'.last.species :
                RemovedIn(species_id) =
                    get_evaluated_genomes_in_species(gm, species_id) \ gm'.elite_genomes
          /\ hist'.last.marked \subseteq DOMAIN gm'.genomes]_vars

\* a cycle has marked elites and removed parents of the same species
C5_Witness ==
    /\ \E t \in Workers : pc[t] = "speciate"
    /\ \E a \in hist.last.marked, b \in hist.last.removed : a \in DOMAIN gm.genomes

\* C6: every id held in an index of the genome store refers to an alive genome
C6_IndicesAlive ==
    /\ gm.free_genomes \subseteq Alive
    /\ gm.evaluated_genomes \subseteq Alive
    /\ gm.elite_genomes \subseteq Alive
    /\ gm.unspeciated_genomes \subseteq Alive
    /\ DOMAIN gm.genome_species_map \subseteq Alive
    /\ \A species_id \in DOMAIN gm.representative_genomes :
          gm.representative_genomes[species_id] \in Alive \cup {NoGenome}

\* C7: once speciate() has completed, every species of the species set has a
\* representative, which is alive and mapped to that species
C7_RepresentativeIsMember ==
    [][SpeciateReturned =>
          \A species_id \in sp'.species :
              /\ get_representative(gm', species_id) # NoGenome
              /\ get_representative(gm', species_id) \in DOMAIN gm'.genome_species_map
              /\ gm'.genome_species_map[get_representative(gm', species_id)] = species_id]_vars

\* the ten submissions are done and the cycle they triggered is over
ScenarioDone == generation = 1 /\ \A t \in Workers : pc[t] = "idle"

\* C8: after the scenario there was one species, genome 10 (fitness 10) is
\* alive, unchanged and was the only elite, 9 offspring were created, the
\* generation is 1, and the evaluated and elite sets are empty
C8_Scenario ==
    ScenarioDone =>
        /\ Cardinality(hist.last.species) = 1
        /\ 10 \in DOMAIN gm.genomes
        /\ gm.genomes[10] = [fitness |-> 10, gene |-> 10]
        /\ hist.last.marked = {10}
        /\ SumOver(hist.last.spawn, DOMAIN hist.last.spawn) = 9
        /\ generation = 1
        /\ gm.evaluated_genomes = {}
        /\ gm.elite_genomes = {}

\* C9: for each species of a cycle the number of genomes marked elite is
\* min(elitism, offspring quota), and the number of children created is the
\* quota minus that number
C9_EliteCount ==
    [][ReproduceEnded =>
          \A species_id \in hist'.last.species :
              LET elite_count ==
                      Cardinality(hist'.last.marked \cap get_genomes_in_species(gm, species_id))
                  quota == sp'.expected_offspring[species_id]
              IN  /\ elite_count = Min(config.elitism, quota)
                  /\ hist'.last.spawn[species_id] = quota - elite_count]_vars

\* the sets of k evaluated members of a species with the k highest fitnesses
TopEvaluated(species_id, k) ==
    {top \in SUBSET get_evaluated_genomes_in_species(gm, species_id) :
        /\ Cardinality(top) = k
        /\ \A a \in top, b \in get_evaluated_genomes_in_species(gm, species_id) \ top :
              get_fitness(gm, a) >= get_fitness(gm, b)}

\* the steps of a cycle after reproduce()
AfterReproduce ==
    \E t \in Workers :
        pc[t] \in {"speciate", "finish", "clear_elites", "clear_evaluated"} /\ pc'[t] # pc[t]

\* C10: with elitism k, the k highest-fitness evaluated members of an active
\* species with at least k evaluated members are alive with the same id and
\* the same genome after the cycle
C10_TopKSurvive ==
    [][/\ ReproduceEnded =>
            \A species_id \in sp.active :
                Cardinality(get_evaluated_genomes_in_species(gm, species_id)) >= config.elitism
                    => \E top \in TopEvaluated(species_id, config.elitism) :
                          \A id \in top :
                              /\ id \in DOMAIN gm'.genomes
                              /\ gm'.genomes[id] = gm.genomes[id]
       /\ AfterReproduce => gm'.genomes = gm.genomes]_vars

\* a cycle that removed a parent and kept an elite of a species is over
C10_Witness ==
    /\ generation >= 1
    /\ \A t \in Workers : pc[t] = "idle"
    /\ \E species_id \in hist.last.species :
          /\ hist.last.removed \cap DOMAIN gm.genome_species_map = {}
          /\ hist.last.removed # {}
          /\ \E id \in hist.last.marked :
                id \in DOMAIN gm.genomes /\ gm.genome_species_map[id] = species_id

----------------------------------------------------------------------------
(* Claims on the offspring arithmetic, stagnation and extinction *)

\* C11: the sum over the active species of the final offspring counts plus the
\* number of elites differs from the number D of genomes evaluated before the
\* cycle by at most the number of species, when reproduce() returns normally
\* (every active species went through its loop)
C11_OffspringConservation ==
    [][(\E t \in Workers : pc[t] = "reproduce" /\ pc'[t] = "speciate") =>
          Abs(SumOver(hist'.last.quota, hist'.last.species)
                  + Cardinality(hist'.last.marked)
                  - Cardinality(gm.evaluated_genomes))
              <= Cardinality(sp.species)]_vars

\* C12: with species_elitism = n, n species of highest current fitness (all of
\* them when there are fewer) are not reported stagnant by the stagnation
\* update, whatever their generation of last improvement
C12_ElitismProtects ==
    \A t \in Workers :
        pc[t] = "identified" =>
            \E top \in SUBSET sp.species :
                /\ Cardinality(top) = Min(config.species_elitism, Cardinality(sp.species))
                /\ \A a \in top, b \in sp.species \ top :
                      sp.current_fitnesses[a] >= sp.current_fitnesses[b]
                /\ top \cap local[t].result = {}

\* C13: with reset_on_extinction = false, a cycle that finds no active species
\* (its stagnation step ends with none left)
\* raises CompleteExtinctionException once, and the exception leaves the
\* handler: it is not caught and nothing runs after it
C13_ExtinctionRaisedOnce ==
    [][\A t \in Workers :
          /\ (/\ pc[t] = "stagnate" /\ pc'[t] # "stagnate"
              /\ sp'.active = {} /\ ~config.reset_on_extinction) =>
                 /\ pc'[t] = "CompleteExtinctionException"
                 /\ hist'.extinctions = hist.extinctions + 1
          /\ pc[t] = "CompleteExtinctionException" =>
                 /\ pc'[t] = "idle"
                 /\ UNCHANGED <<gm, sp, generation, is_evolving, stop, best_genome,
                                genome_indexer, hist>>]_vars

\* the exception has reached the caller after a cycle whose stagnation step
\* retired two species together
C13_Witness ==
    /\ hist.extinctions = 1
    /\ \A t \in Workers : pc[t] = "idle"
    /\ Cardinality(sp.species) >= 2
    /\ sp.active = {}
    /\ ~config.reset_on_extinction

----------------------------------------------------------------------------
(* Claims on the orchestrator *)

\* C14: once a cycle has found the fitness goal reached (stop is set), stop
\* stays set (the solution is reported when stop is set, so once), no later
\* submission starts reproduction, and the generation counter and the set of
\* stored genomes do not change any more
C14_TerminalForGood ==
    [][stop =>
          /\ stop'
          /\ \A t \in Workers : pc'[t] # "reproduce"
          /\ generation' = generation
          /\ DOMAIN gm'.genomes = DOMAIN gm.genomes]_vars

C16_MarksCleared ==
    [][\A t \in Workers :
          (pc[t] \in {"finish", "clear_evaluated"} /\ pc'[t] = "idle" /\ ~stop) =>
              /\ gm'.evaluated_genomes = {}
              /\ gm'.elite_genomes = {}]_vars

\* C17: the generation counter never decreases; it grows by exactly one in a
\* cycle that completes without reaching the fitness goal, which is a cycle
\* whose reproduce() returns (finish is reached from speciate, and speciate
\* from reproduce, or else from the goal test); every other step, among them
\* the steps of a submission that starts no cycle and of a cycle that ends in
\* the terminal state, leaves it unchanged
C17_GenerationCounter ==
    [][/\ generation' >= generation
       /\ \A t \in Workers :
             /\ (pc[t] = "reproduce" /\ pc'[t] = "speciate") => generation' = generation + 1
             /\ (pc[t] # "reproduce" /\ pc'[t] # pc[t]) => generation' = generation
             /\ (pc[t] = "reproduce" /\ pc'[t] \notin {"reproduce", "speciate"}) =>
                    generation' = generation
             /\ (pc'[t] = "speciate" /\ pc[t] # "speciate") => pc[t] = "reproduce"
             /\ (pc'[t] = "finish" /\ pc[t] # "finish") =>
                    \/ pc[t] = "speciate"
                    \/ pc[t] = "best" /\ stop']_vars

\* a cycle has completed and grown the counter, another one has ended in the
\* terminal state, and the handler is back
C17_Witness ==
    /\ generation = 1
    /\ stop
    /\ hist.last.species # {}
    /\ \A t \in Workers : pc[t] = "idle"

\* the species the stagnation update of the running cycle reports stagnant
reported_stagnant ==
    stagnant_species(update_fitnesses(gm, sp, sp.active \cap sp.species), config,
                     sp.active \cap sp.species)

----------------------------------------------------------------------------
(* Claims on references to removed genomes and on unprocessable submissions *)

\* C19: once remove_genome(id) has run, no species lists id as a member, and
\* a later call that references id (get_genome, get_fitness,
\* update_genome_data, a second remove_genome) ends in an exception: it
\* neither returns a value nor does nothing
C19_RemovedIsNotFound ==
    [][/\ \A id \in 1..StoreMaxId :
             gm' = remove_genome(gm, id) =>
                 \A species_id \in sp.species :
                     id \notin get_genomes_in_species(gm', species_id)
       /\ (local'[1] # local[1]
             /\ local'[1].genome_id < genome_indexer
             /\ local'[1].genome_id \notin DOMAIN gm.genomes) =>
                 local'[1].result \in Errors]_vars

\* thread t handles a submission that cannot be processed: it carries the
\* placeholder id, or update_genome_data has not found its id
unprocessable(t) ==
    \/ pc[t] \notin {"idle"} \cup Errors /\ local[t].genome_id = PlaceholderId
    \/ pc[t] = "ValueError"

\* C20: the handling of a submission that cannot be processed (unknown genome
\* id, or the placeholder id 0) marks nothing evaluated and leaves the
\* fitness, the lifecycle sets and the species assignment of every genome as
\* they are
C20_UnprocessableIgnored ==
    [][\A t \in Workers :
          ((unprocessable(t) /\ pc'[t] # pc[t]) \/ (pc[t] = "idle" /\ pc'[t] = "ValueError")) =>
              /\ gm'.evaluated_genomes = gm.evaluated_genomes
              /\ gm'.genomes = gm.genomes
              /\ gm'.free_genomes = gm.free_genomes
              /\ gm'.elite_genomes = gm.elite_genomes
              /\ gm'.unspeciated_genomes = gm.unspeciated_genomes
              /\ gm'.genome_species_map = gm.genome_species_map]_vars

----------------------------------------------------------------------------
(* Claims on parents, the distance cache and the partition *)

\* the parents create_offspring samples from: sorted_parents[:parent_cutoff]
candidate_parents(g, c, species_id) ==
    LET pool == Cardinality(get_evaluated_genomes_in_species(g, species_id))
    IN  Min(pool, get_reproduction_cutoff(c.survival_threshold, pool, c.min_species_size))

\* C21: a species that has to produce a child while fewer than two parents
\* can be sampled makes reproduce() fail and gets no child: a species that
\* received children had two candidate parents, the children created are
\* those of the species reproduce() went through, and reproduce() ends in an
\* exception when it leaves an active species out
C21_InsufficientParents ==
    [][\A t \in Workers :
          (pc[t] = "reproduce" /\ pc'[t] # "reproduce") =>
              /\ \A species_id \in hist'.last.species :
                    hist'.last.spawn[species_id] > 0 =>
                        candidate_parents(gm, config, species_id) >= 2
              /\ genome_indexer' - genome_indexer
                     = SumOver(hist'.last.spawn, hist'.last.species)
              /\ sp.active \ hist'.last.species # {} => pc'[t] = "ValueError"]_vars

\* reproduce() has stopped at a species with a dying member and a single
\* candidate parent
C21_Witness ==
    \E t \in Workers :
        /\ pc[t] = "ValueError"
        /\ is_evolving
        /\ \E species_id \in sp.active \ hist.last.species :
              /\ get_dying_genomes_for_species(gm, species_id) # {}
              /\ candidate_parents(gm, config, species_id) < 2

\* the unordered pairs of keys the cache holds a distance for
cached_pairs == {{key[1], key[2]} : key \in DOMAIN distance_cache.distances}

\* C22: whatever calls the cache has answered, it returns the same distance
\* for (a, b) and for (b, a), the distance it holds is the one the genomes
\* give, and the genome distance has been computed once for each unordered
\* pair the cache holds and for no other: the misses count the computations
C22_SymmetricAndMemoized ==
    /\ \A a \in DOMAIN gm.genomes, b \in DOMAIN gm.genomes :
          /\ distance_cache_call(distance_cache, gm, a, b).d
                 = distance_cache_call(distance_cache, gm, b, a).d
          /\ distance_cache_call(distance_cache, gm, a, b).d = distance(gm, a, b)
          /\ <<a, b>> \in DOMAIN distance_cache.distances
                 <=> <<b, a>> \in DOMAIN distance_cache.distances
    /\ distance_cache.misses = Cardinality(cached_pairs)

\* both orders of a pair of distinct genomes at a non-zero distance have been
\* asked for after the distance was computed
C22_Witness ==
    /\ distance_cache.misses = 1
    /\ distance_cache.hits = 2
    /\ \E a \in DOMAIN gm.genomes, b \in DOMAIN gm.genomes :
          /\ a # b
          /\ <<a, b>> \in DOMAIN distance_cache.distances
          /\ distance_cache.distances[<<a, b>>] > 0

\* the species whose representative is at a distance strictly below the
\* compatibility threshold from `genome`
species_below_threshold(genome) ==
    {species_id \in sp.species :
        distance(gm, get_representative(gm, species_id), genome)
            < config.compatibility_threshold}

\* C23: the partition gives an unspeciated genome to a species at minimum
\* distance among those whose representative is strictly below the
\* compatibility threshold and creates no species; when no species is below
\* the threshold it creates one with the genome as only member and
\* representative
C23_PartitionRule ==
    [][\A genome \in gm.unspeciated_genomes \ gm'.unspeciated_genomes :
          IF species_below_threshold(genome) # {}
          THEN /\ sp'.species = sp.species
               /\ gm'.genome_species_map[genome] \in species_below_threshold(genome)
               /\ \A other \in species_below_threshold(genome) :
                     distance(gm, get_representative(gm, gm'.genome_species_map[genome]), genome)
                         <= distance(gm, get_representative(gm, other), genome)
          ELSE /\ gm'.genome_species_map[genome] \in sp'.species \ sp.species
               /\ get_genomes_in_species(gm', gm'.genome_species_map[genome]) = {genome}
               /\ get_representative(gm', gm'.genome_species_map[genome]) = genome]_vars

----------------------------------------------------------------------------
(* Claims on the stagnation update *)

\* C24: a stagnation update sets last_improved of the species to the current
\* generation if and only if the new fitness is strictly greater than every
\* fitness recorded for it before, and leaves it unchanged otherwise; in the
\* species set the fitness the species was created with counts as recorded
C24_ImprovedOverMaximum ==
    [][generation' = generation + 1 =>
          LET species == local[1].species
              fitness == local'[1].species.fitness
              improved == \A i \in DOMAIN species.fitness_history :
                              fitness > species.fitness_history[i]
          IN  /\ local'[1].species.last_improved
                     = IF improved THEN generation' ELSE species.last_improved
              /\ sp'.last_improved[1]
                     = IF improved /\ fitness > InitialSpeciesFitness
                       THEN generation' ELSE sp.last_improved[1]]_vars

\* a fitness above the one recorded last but not above the maximum recorded
\* has left last_improved at the generation of the maximum
C24_Witness ==
    /\ generation = 3
    /\ local[1].species.fitness_history = <<2, 0, 1>>
    /\ local[1].species.last_improved = 1
    /\ sp.last_improved[1] = 1

\* C25: a species reported stagnant last improved more than max_stagnation
\* generations ago, so a species that improved exactly max_stagnation
\* generations ago is not reported; and with no species protected
\* (species_elitism = 0) every species that last improved more than
\* max_stagnation generations ago is reported, as is_stagnant of the species
\* set tells
C25_StagnationLimit ==
    \A t \in Workers :
        pc[t] = "identified" =>
            \A species_id \in sp.species :
                /\ species_id \in local[t].result =>
                       sp.generation - sp.last_improved[species_id] > config.max_stagnation
                /\ config.species_elitism = 0 =>
                       /\ species_id \in local[t].result
                              <=> sp.generation - sp.last_improved[species_id]
                                      > config.max_stagnation
                       /\ species_id \in local[t].result
                              <=> is_stagnant(sp, species_id, config.max_stagnation)


----------------------------------------------------------------------------
(* Claims on genome ids, requests and offspring counts                      *)

\* C26: every key that enters the store, for an initial genome or a child,
\* is at least the indexer's value before the step and below its value after
\* it, the indexer never goes back and every stored key is below it; the
\* population created again on extinction has fresh keys only.  So a key is
\* greater than all keys handed out before, also after removals and after the
\* population was recreated on extinction
C26_IdsNeverReused ==
    /\ [](\A key \in DOMAIN gm.genomes : key < genome_indexer)
    /\ [][/\ genome_indexer' >= genome_indexer
          /\ \A key \in DOMAIN gm'.genomes \ DOMAIN gm.genomes :
                key >= genome_indexer /\ key < genome_indexer'
          /\ hist'.extinctions > hist.extinctions /\ config.reset_on_extinction
                => \A key \in DOMAIN gm'.genomes :
                      key >= genome_indexer /\ key < genome_indexer']_vars

\* the population was recreated after an extinction: every stored genome has
\* a key above those of the first population
C26_Witness ==
    /\ config.reset_on_extinction
    /\ hist.extinctions >= 1
    /\ DOMAIN gm.genomes # {}
    /\ \A key \in DOMAIN gm.genomes : key > config.pop_size


\* C27: a request made while some genome is free returns one of the free
\* genomes and takes exactly that genome out of the free set in the same step;
\* a request made while no genome is free fails with RuntimeError and changes
\* nothing; a stored genome that is not free becomes free again only in a step
\* of the generation advance, so no second request gets it before
C27_RequestTakesFree ==
    [][/\ local'[Endpoint] # local[Endpoint] =>
            IF gm.free_genomes = {}
            THEN local'[Endpoint].result = "RuntimeError" /\ gm' = gm
            ELSE /\ local'[Endpoint].result = "genome"
                 /\ local'[Endpoint].genome_id \in gm.free_genomes
                 /\ local'[Endpoint].genome_id \in DOMAIN gm.genomes
                 /\ gm'.free_genomes = gm.free_genomes \ {local'[Endpoint].genome_id}
       /\ \A genome_id \in DOMAIN gm.genomes :
             genome_id \in gm'.free_genomes \ gm.free_genomes
                => \E t \in Workers : pc[t] \in {"stagnate", "reproduce"}]_vars

\* the last free genome was handed out: it is stored and no longer free, and
\* the next request finds nothing
C27_Witness ==
    /\ local[Endpoint].result = "genome"
    /\ local[Endpoint].genome_id \in DOMAIN gm.genomes
    /\ local[Endpoint].genome_id \notin gm.free_genomes
    /\ gm.free_genomes = {}


\* C28: computing the final offspring counts never fails, also when the
\* deficits sum to zero or nothing was evaluated: reproduce() never ends with
\* a division by zero, and every count it stored is at least min_species_size
C28_CountsNeverFail ==
    [][\A t \in Workers :
          pc[t] = "reproduce" =>
             /\ pc'[t] # "ZeroDivisionError"
             /\ pc'[t] = "speciate" =>
                   \A species_id \in hist'.last.species :
                      hist'.last.quota[species_id] >= config.min_species_size]_vars


\* C29: the deficit reproduce() stores for a species is computed from that
\* species' own dying count (its evaluated members that are not elite):
\* dying + round((expected size - dying) / 2), moved by one toward the expected
\* size when a non-zero half-difference rounds to zero
C29_DeficitFromOwnDying ==
    [][\A t \in Workers :
          pc[t] = "reproduce" /\ pc'[t] = "speciate" =>
             \A species_id \in sp.active :
                sp'.population_deficits[species_id] =
                   compute_species_deficit(
                      compute_expected_size(TotalAdjustedPositive(gm, sp),
                                            AdjustedShare(gm, sp, species_id),
                                            Cardinality(gm.evaluated_genomes),
                                            get_minimum_species_size(config)),
                      Cardinality(get_dying_genomes_for_species(gm, species_id)))]_vars


\* C30: the stagnation update of a species none of whose members is in the
\* list of evaluated ids does not raise: the species' fitness of that
\* generation is the lowest value there is and last_improved stays as it was
C30_EmptySpeciesNoRaise ==
    [][local'[1] # local[1] /\ local'[1].evaluated_genome_ids = {} =>
          /\ local'[1].result = "updated"
          /\ local'[1].species.fitness = NegativeFloatMax
          /\ local'[1].species.last_improved = local[1].species.last_improved]_vars


----------------------------------------------------------------------------
(* Claims on the orchestrator                                                *)

\* C31: is_evolving is true only while a cycle is executing: whenever every
\* handler has returned, normally or with an exception, is_evolving is false
C31_IdleNotEvolving ==
    (\A t \in Workers : pc[t] = "idle") => ~is_evolving


\* C32: no evaluation is lost: whenever no handler is running, every alive
\* genome is free, handed out and awaiting its evaluation, or in evaluated
C32_ScoredNotLost ==
    (\A t \in Workers : pc[t] = "idle") =>
        \A genome_id \in DOMAIN gm.genomes :
            genome_id \in gm.free_genomes \cup gm.evaluated_genomes
                                          \cup local[Endpoint].awaiting


\* C33: progress: while the fitness goal is not reached and no extinction
\* occurred, the generation counter eventually increases
C33_GenerationIncreases ==
    \A n \in 0..(MaxGeneration - 1) :
        (hist.started /\ generation = n)
            ~> (generation > n \/ stop \/ hist.extinctions > 0)


\* the handler of thread t is in the reproduction or speciation of a cycle
\* that recreated the population: nothing is evaluated, while a cycle that
\* did not recreate it keeps at least its evaluated elite
InRecreatingCycle(t) ==
    /\ config.reset_on_extinction
    /\ hist.extinctions > 0
    /\ pc[t] \in {"reproduce", "speciate"}
    /\ gm.evaluated_genomes = {}

C35_StagnantRemoved ==
    \A t \in DOMAIN local :
        "before" \in DOMAIN local[t] =>
            local[t].after.species = local[t].before.species \cap local[t].before.active



\* C36: a genome that a step assigns to a species, or moves to another
\* species, is assigned to a species that is active after the step
C36_AssignedToActive ==
    [][\A key \in DOMAIN gm'.genome_species_map :
          (key \notin DOMAIN gm.genome_species_map
              \/ gm.genome_species_map[key] # gm'.genome_species_map[key])
          => gm'.genome_species_map[key] \in sp'.active]_vars


\* the unspeciated genomes left when the refresh reaches species_id: those
\* the species before it in the dict did not take
RefreshPool(species_id) ==
    gm.unspeciated_genomes \
        {gm'.representative_genomes[o] :
            o \in {x \in sp.species : x < species_id
                                      /\ x \in DOMAIN gm'.representative_genomes}}

\* C37: speciate() gives every species of the dict that finds unspeciated
\* genomes a new representative among them, at minimum distance to its
\* previous representative when that one is still stored; the new
\* representative is a member of the species and no longer unspeciated; a
\* species that finds none keeps its representative; no genome is the
\* representative of two species
C37_RepresentativeRefresh ==
    /\ [][RefreshSpeciate =>
            \A species_id \in sp.species :
               LET pool == RefreshPool(species_id)
                   prev == get_representative(gm, species_id)
               IN  IF pool = {}
                   THEN IF species_id \in DOMAIN gm.representative_genomes
                        THEN /\ species_id \in DOMAIN gm'.representative_genomes
                             /\ gm'.representative_genomes[species_id]
                                   = gm.representative_genomes[species_id]
                        ELSE species_id \notin DOMAIN gm'.representative_genomes
                   ELSE /\ species_id \in DOMAIN gm'.representative_genomes
                        /\ gm'.representative_genomes[species_id] \in pool
                        /\ prev # NoGenome =>
                              \A o \in pool :
                                 distance(gm, prev, gm'.representative_genomes[species_id])
                                    <= distance(gm, prev, o)
                        /\ gm'.genome_species_map[gm'.representative_genomes[species_id]]
                              = species_id
                        /\ gm'.representative_genomes[species_id]
                              \notin gm'.unspeciated_genomes]_vars
    /\ [](\A a, b \in DOMAIN gm.representative_genomes :
             a # b => gm.representative_genomes[a] # gm.representative_genomes[b])

\* a species has been refreshed: its representative is a stored member that
\* was assigned to it after another member, the founder being the first
\* genome assigned to a species; a third genome is stored
C37_Witness ==
    /\ Cardinality(DOMAIN gm.genomes) >= 3
    /\ gm.unspeciated_genomes = {}
    /\ \E species_id \in sp.species :
          LET rep == get_representative(gm, species_id)
          IN  /\ rep # NoGenome
              /\ gm.genome_species_map[rep] = species_id
              /\ \E i, j \in DOMAIN gm.species_map_order :
                    /\ i < j
                    /\ gm.species_map_order[j] = rep
                    /\ gm.species_map_order[i] \in get_genomes_in_species(gm, species_id)



\* C38: a reproduction that ends without an exception while every species
\* of the set is active creates for each species as many children as it
\* removes dying parents of that species, so the number of stored genomes and
\* the alive count are the same after it; the other stages of such a cycle
\* neither add nor remove a genome
C38_OffspringReplaceDying ==
    [][\A t \in Workers :
          /\ pc[t] = "reproduce" /\ pc'[t] = "speciate" /\ sp.species \subseteq sp.active
                => /\ \A species_id \in sp.active :
                         hist'.last.spawn[species_id]
                            = Cardinality({key \in DOMAIN gm.genomes \ DOMAIN gm'.genomes :
                                              gm.genome_species_map[key] = species_id})
                   /\ Cardinality(DOMAIN gm'.genomes \ DOMAIN gm.genomes)
                         = SumOver(hist'.last.spawn, sp.active)
                   /\ Cardinality(DOMAIN gm'.genomes) = Cardinality(DOMAIN gm.genomes)
                   /\ gm'.alive_genomes_count = gm.alive_genomes_count
          /\ pc[t] \in Stages \ {"reproduce"} /\ pc'[t] \notin Errors
             /\ sp'.species \subseteq sp'.active
                => DOMAIN gm'.genomes = DOMAIN gm.genomes]_vars

\* a cycle has ended in which every species stayed active and the
\* reproduction removed dying parents and created as many children
C38_Witness ==
    /\ generation >= 1
    /\ \A t \in Workers : pc[t] = "idle"
    /\ sp.species # {}
    /\ sp.species \subseteq sp.active
    /\ hist.last.removed # {}
    /\ \E key \in DOMAIN gm.genomes : key > config.pop_size


C40_SpeciesIdsFresh ==
    \A t \in DOMAIN local :
        local[t].created # 0 => local[t].created \notin local[t].removed

====
